---- MODULE Spec2Model ----
(***************************************************************************)
(* A model of the book-template build pipeline (build-web, build-pdf,      *)
(* build-kindle, build-leanpub, author-utils) and of the in-browser table  *)
(* of contents navigator (enhanced-features.js).                           *)
(*                                                                         *)
(* Strings are sequences of one-character strings, so that sorting,        *)
(* replacing, joining and splitting are computed as the code computes them.*)
(***************************************************************************)
EXTENDS Integers, Sequences, FiniteSets, TLC

VARIABLES
    \* ---- build pipeline (scripts/build-*.js) ----
    dirFiles,      \* the file names present in src/chapters
    listing,       \* the order in which fs.readdir currently enumerates them
    metadata,      \* the parsed src/metadata/book.yaml
    built,         \* the targets that have been built
    rebuilt,       \* the targets that have been built again over their own output
    chapterOrder,  \* [target -> the markdownFiles the last build derived]
    webPages,      \* docs/chapters/*.html: <<[chapter, prevChapter, nextChapter]>>
    sitemap,       \* docs/sitemap.xml: the <loc> entries in order
    kindleBook,    \* build/kindle/book.md
    pdfCombined,   \* temp/combined.md
    bookTxt,       \* manuscript/Book.txt
    \* ---- author-utils.js ----
    authorCalls,   \* which of getAuthorString / getAuthorArray have returned
    authorString,  \* the value getAuthorString(metadata) returned
    authorArray,   \* the value getAuthorArray(metadata) returned
    \* ---- enhanced-features.js: the table of contents navigator ----
    headings,      \* the h1..h6 of .chapter-content: <<[level, id, top]>>
    scanned,       \* how many headings the forEach of initTableOfContents has done
    counters,      \* counters.h1 .. counters.h6
    tocHTML,       \* the entries accumulated for #toc-list
    tocLinks,      \* the .toc-link elements: <<[headingId, marker, level, active]>>
    navReady,      \* initTableOfContents has returned
    scrollY,       \* window.scrollY
    scrollTimeout, \* the scroll throttle timer is pending
    initialTimer,  \* the 200 ms timer of initTableOfContents is pending
    activeHeading, \* the heading updateActiveTocItem chose last (0: none)
    \* ---- enhanced-features.js: grouping of the chapter list ----
    chapterItems,  \* the titles of the .chapter-dropdown-item elements
    chaptersGrid,  \* the children of #chapters-grid: <<[kind, header, items]>>
    groupingRan,   \* initChapterGrouping has run
    \* ---- build-pdf.js: a run of buildPDF ----
    pdfEnv,        \* what the machine provides: pandoc, metadata, converters
    pdfPc,         \* where the run stands
    pdfTried,      \* the converters tried so far: <<[engine, ok]>>
    pdfSuccess,    \* let success
    pdfExit,       \* the exit code, once pdfPc = "exited"
    tempDir,       \* the directory temp exists
    distFiles,     \* the artifacts written to dist
    \* ---- build-kindle.js: the anchor of one heading ----
    headingText,   \* the trimmed text of a "# " or "## " heading
    anchor,        \* the anchor derived for it
    anchorDone,    \* the anchor has been derived
    \* ---- author-utils.js: the About the Author(s) section ----
    aboutSection,  \* what generateAboutAuthors(metadata) returned, block by block
    aboutDone,     \* generateAboutAuthors has returned
    \* ---- validate.js: a run of validate ----
    valEnv,        \* the project directory validate is run on
    valPc,         \* where the run stands
    valErrors,     \* let errors
    valWarnings,   \* let warnings
    valScans,      \* the scans that have returned
    valReport,     \* the validation report printed, if any
    valExit,       \* the exit code, once valPc = "exited"
    \* ---- enhanced-features.js: scroll and resize events of the navigator ----
    winScrollY,    \* window.scrollY during a burst of events
    innerWidth,    \* window.innerWidth
    burstEvents,   \* the scroll and resize events of the burst so far
    burstOver,     \* a timer has fired, the burst of events is over
    tocPositionTimeout, \* the timer of throttledAdjustPosition is pending
    activeTimeout, \* the timer armed by the scroll listener of updateActiveTocItem is pending
    positionRuns,  \* the runs of adjustTocPosition since the burst began
    activeRuns,    \* the runs of updateActiveTocItem since the burst began
    syncRuns,      \* the events whose listener ran a recomputation itself
    positionY,     \* the scroll position the last adjustTocPosition read
    activeY,       \* the scroll position the last updateActiveTocItem read
    \* ---- enhanced-features.js: the TOC panel, its collapse state and its mobile overlay ----
    panels,        \* the injected .toc-sidebar elements: <<[mobileActive, collapsed]>>
    tocMobileOpen, \* document.body has the class toc-mobile-open
    viewportWidth, \* window.innerWidth of the page with the panel
    lastEvent,     \* the last event dispatched on the page
    before,        \* the panel state that event found
    handlerRuns,   \* how many listeners of one registration site ran for that event
    \* ---- dev-server.js ----
    devAlive,      \* the dev server process is running
    devExit,       \* its exit code once it is not
    listening,     \* app.listen has been called
    buildTimeout,  \* the debounce timer of the watcher is pending
    runningBuilds, \* the calls of buildWeb that have not returned: <<"initial" or "rebuild">>
    sourceBroken,  \* the sources make buildWeb throw (for example invalid YAML in book.yaml)
    changes,       \* the file changes the watcher has reported
    failedRebuilds, \* the rebuilds in which buildWeb has failed
    devLog,        \* what the dev server has printed
    \* ---- build-kindle.js: the converter invocations ----
    convPc,        \* the position of buildKindle: idle, epub, calibre, mobi, report, done
    pandocExit,    \* the exit code pandoc will end with
    calibreInstalled, \* ebook-convert --version succeeds
    mobiExit,      \* the exit code ebook-convert will end with
    epubGenerated, \* this run's pandoc has written build/kindle/book.epub
    epubOnDisk,    \* build/kindle/book.epub exists (written now or left by an earlier build)
    mobiAttempted, \* the MOBI conversion command has been run
    convLog,       \* what buildKindle has printed
    \* ---- enhanced-features.js: initializeFeatures ----
    page,          \* the elements of the loaded page
    featPc,        \* loaded (DOMContentLoaded not yet handled) or done
    ranInitializers, \* the initializers that have run to their end, in order
    uncaughtError, \* the DOMContentLoaded handler ended with an uncaught TypeError
    copyButtons    \* the copy buttons added to the pre elements

corpusVars == <<dirFiles, listing, metadata, built, rebuilt, chapterOrder,
                webPages, sitemap, kindleBook, pdfCombined, bookTxt>>

authorVars == <<authorCalls, authorString, authorArray>>

navVars == <<headings, scanned, counters, tocHTML, tocLinks, navReady, scrollY,
             scrollTimeout, initialTimer, activeHeading>>

groupVars == <<chapterItems, chaptersGrid, groupingRan>>

pdfVars == <<pdfEnv, pdfPc, pdfTried, pdfSuccess, pdfExit, tempDir, distFiles>>

anchorVars == <<headingText, anchor, anchorDone>>

aboutVars == <<aboutSection, aboutDone>>

validateVars == <<valEnv, valPc, valErrors, valWarnings, valScans, valReport, valExit>>

throttleVars == <<winScrollY, innerWidth, burstEvents, burstOver, tocPositionTimeout, activeTimeout, positionRuns, activeRuns, syncRuns, positionY, activeY>>

panelVars == <<panels, tocMobileOpen, viewportWidth, lastEvent, before, handlerRuns>>

devVars == <<devAlive, devExit, listening, buildTimeout, runningBuilds, sourceBroken, changes, failedRebuilds, devLog>>

convertVars == <<convPc, pandocExit, calibreInstalled, mobiExit, epubGenerated, epubOnDisk, mobiAttempted, convLog>>

featuresVars == <<page, featPc, ranInitializers, uncaughtError, copyButtons>>

vars == <<corpusVars, authorVars, navVars, groupVars, pdfVars, anchorVars, aboutVars, validateVars, throttleVars, panelVars, devVars, convertVars, featuresVars>>

\* what the operations of one part of the program leave alone
outsideCorpus  == <<authorVars, navVars, groupVars, pdfVars, anchorVars, aboutVars, validateVars, throttleVars, panelVars, devVars, convertVars, featuresVars>>
outsideAuthors == <<corpusVars, navVars, groupVars, pdfVars, anchorVars, aboutVars, validateVars, throttleVars, panelVars, devVars, convertVars, featuresVars>>
outsideNav     == <<corpusVars, authorVars, groupVars, pdfVars, anchorVars, aboutVars, validateVars, throttleVars, panelVars, devVars, convertVars, featuresVars>>
outsideGroup   == <<corpusVars, authorVars, navVars, pdfVars, anchorVars, aboutVars, validateVars, throttleVars, panelVars, devVars, convertVars, featuresVars>>
outsidePdf     == <<corpusVars, authorVars, navVars, groupVars, anchorVars, aboutVars, validateVars, throttleVars, panelVars, devVars, convertVars, featuresVars>>
outsideAnchor  == <<corpusVars, authorVars, navVars, groupVars, pdfVars, aboutVars, validateVars, throttleVars, panelVars, devVars, convertVars, featuresVars>>
outsideAbout   == <<corpusVars, authorVars, navVars, groupVars, pdfVars, anchorVars, validateVars, throttleVars, panelVars, devVars, convertVars, featuresVars>>
outsideValidate == <<corpusVars, authorVars, navVars, groupVars, pdfVars, anchorVars, aboutVars, throttleVars, panelVars, devVars, convertVars, featuresVars>>
outsideThrottle == <<corpusVars, authorVars, navVars, groupVars, pdfVars, anchorVars, aboutVars, validateVars, panelVars, devVars, convertVars, featuresVars>>
outsidePanel == <<corpusVars, authorVars, navVars, groupVars, pdfVars, anchorVars, aboutVars, validateVars, throttleVars, devVars, convertVars, featuresVars>>
outsideDev == <<corpusVars, authorVars, navVars, groupVars, pdfVars, anchorVars, aboutVars, validateVars, throttleVars, panelVars, convertVars, featuresVars>>
outsideConvert == <<corpusVars, authorVars, navVars, groupVars, pdfVars, anchorVars, aboutVars, validateVars, throttleVars, panelVars, devVars, featuresVars>>
outsideFeatures == <<corpusVars, authorVars, navVars, groupVars, pdfVars, anchorVars, aboutVars, validateVars, throttleVars, panelVars, devVars, convertVars>>
outsideCorpusAndPdf == <<authorVars, navVars, groupVars, anchorVars, aboutVars, validateVars, throttleVars, panelVars, devVars, convertVars, featuresVars>>

-----------------------------------------------------------------------------
(* Bounds *)

MaxFiles == 3        \* at most this many files in src/chapters
MaxAuthors == 4      \* at most this many records in metadata.authors
MaxHeadings == 5     \* at most this many headings on a page whose TOC is built
MaxNavHeadings == 3  \* at most this many headings on a page that is scrolled
MaxChapters == 25    \* at most this many entries in the chapter list
MaxTitleLen == 3     \* at most this many characters in a heading text
MaxValChapters == 2  \* at most this many chapters in a project that is validated
MaxBurst == 3        \* at most this many events in a burst of scroll and resize events
MaxInits == 2        \* at most this many initializations of the navigator on one page
MaxChanges == 3      \* at most this many file changes reported to the dev server
MaxPres == 3         \* at most this many pre elements on a page

-----------------------------------------------------------------------------
(* Strings as sequences of characters *)

\* UTF-16 code unit of every character the model uses
CodeTable ==
    ("\n" :> 10 @@ " " :> 32 @@ "!" :> 33 @@ "#" :> 35 @@ "&" :> 38 @@ "," :> 44 @@
     "-" :> 45 @@ "." :> 46 @@ "/" :> 47 @@ "0" :> 48 @@ "1" :> 49 @@ "2" :> 50 @@
     "3" :> 51 @@
     "4" :> 52 @@ "5" :> 53 @@ "6" :> 54 @@ "7" :> 55 @@ "8" :> 56 @@ "9" :> 57 @@
     "A" :> 65 @@ "B" :> 66 @@ "G" :> 71 @@ "I" :> 73 @@ "L" :> 76 @@
     "S" :> 83 @@ "a" :> 97 @@ "b" :> 98 @@ "c" :> 99 @@ "d" :> 100 @@ "e" :> 101 @@
     "h" :> 104 @@ "i" :> 105 @@ "l" :> 108 @@ "m" :> 109 @@ "n" :> 110 @@
     "o" :> 111 @@ "p" :> 112 @@ "r" :> 114 @@ "s" :> 115 @@ "t" :> 116 @@
     "u" :> 117 @@ "x" :> 120)

Code(c) == CodeTable[c]

\* a < b in the order String.prototype comparison uses (code unit by code unit)
RECURSIVE StrLess(_, _)
StrLess(a, b) ==
    IF a = <<>> THEN b # <<>>
    ELSE IF b = <<>> THEN FALSE
    ELSE IF Code(Head(a)) < Code(Head(b)) THEN TRUE
    ELSE IF Code(Head(a)) > Code(Head(b)) THEN FALSE
    ELSE StrLess(Tail(a), Tail(b))

\* String.prototype.endsWith
EndsWith(s, suf) ==
    /\ Len(s) >= Len(suf)
    /\ SubSeq(s, Len(s) - Len(suf) + 1, Len(s)) = suf

\* String.prototype.startsWith
StartsWith(s, pre) ==
    /\ Len(s) >= Len(pre)
    /\ SubSeq(s, 1, Len(pre)) = pre

\* String.prototype.indexOf, 1-based; 0 when pat does not occur
IndexOf(s, pat) ==
    LET hits == {i \in 1..(Len(s) - Len(pat) + 1) : SubSeq(s, i, i + Len(pat) - 1) = pat}
    IN  IF hits = {} THEN 0 ELSE CHOOSE i \in hits : \A j \in hits : i <= j

\* String.prototype.replace with a string pattern: the first occurrence only
ReplaceFirst(s, pat, rep) ==
    LET i == IndexOf(s, pat)
    IN  IF i = 0 THEN s
        ELSE SubSeq(s, 1, i - 1) \o rep \o SubSeq(s, i + Len(pat), Len(s))

\* Array.prototype.join
RECURSIVE Join(_, _)
Join(parts, sep) ==
    IF parts = <<>> THEN <<>>
    ELSE IF Len(parts) = 1 THEN parts[1]
    ELSE parts[1] \o sep \o Join(Tail(parts), sep)

Range(s) == {s[i] : i \in 1..Len(s)}

DotMd   == <<".", "m", "d">>
DotHtml == <<".", "h", "t", "m", "l">>

-----------------------------------------------------------------------------
(* The chapter corpus: readdir, filter, sort *)

\* insertion of x into a list sorted by StrLess (stable)
RECURSIVE InsertSorted(_, _)
InsertSorted(x, s) ==
    IF s = <<>> THEN <<x>>
    ELSE IF StrLess(x, Head(s)) THEN <<x>> \o s
    ELSE <<Head(s)>> \o InsertSorted(x, Tail(s))

RECURSIVE SortFold(_, _)
SortFold(s, acc) ==
    IF s = <<>> THEN acc ELSE SortFold(Tail(s), InsertSorted(Head(s), acc))

\* a broken sort: the list is left in enumeration order
UnsortedFiles(s) == s

\* Array.prototype.sort() with the default comparator
SortFiles(s) == SortFold(s, <<>>)

IsMarkdown(file) == EndsWith(file, DotMd)

\* chapterFiles.filter(file => file.endsWith('.md')).sort()
MarkdownFiles(files) == SortFiles(SelectSeq(files, IsMarkdown))

ChaptersDir == <<"s", "r", "c", "/", "c", "h", "a", "p", "t", "e", "r", "s">>

\* path.join(chaptersDir, file)
PathJoin(dir, file) == dir \o <<"/">> \o file

\* path.basename(filePath)
Basename(p) ==
    LET slashes == {i \in 1..Len(p) : p[i] = "/"}
    IN  IF slashes = {} THEN p
        ELSE SubSeq(p, (CHOOSE i \in slashes : \A j \in slashes : j <= i) + 1, Len(p))

-----------------------------------------------------------------------------
(* Text helpers used by the title, anchor and author code *)

IsSpace(c) == c \in {" ", "\n"}

RECURSIVE TrimLeft(_)
TrimLeft(s) == IF s # <<>> /\ IsSpace(Head(s)) THEN TrimLeft(Tail(s)) ELSE s

RECURSIVE TrimRight(_)
TrimRight(s) ==
    IF s # <<>> /\ IsSpace(s[Len(s)]) THEN TrimRight(SubSeq(s, 1, Len(s) - 1)) ELSE s

\* String.prototype.trim
Trim(s) == TrimRight(TrimLeft(s))

\* String.prototype.toLowerCase, on the capitals the model uses
Lower(c) ==
    CASE c = "A" -> "a" [] c = "B" -> "b" [] c = "C" -> "c" [] c = "G" -> "g"
      [] c = "I" -> "i" [] c = "L" -> "l" [] c = "O" -> "o" [] c = "S" -> "s"
      [] c = "P" -> "p" [] c = "R" -> "r" [] c = "T" -> "t" [] c = "H" -> "h"
      [] c = "E" -> "e"
      [] OTHER -> c

LowerAlnum ==
    {"a", "b", "c", "d", "e", "f", "g", "h", "i", "j", "k", "l", "m", "n", "o",
     "p", "q", "r", "s", "t", "u", "v", "w", "x", "y", "z",
     "0", "1", "2", "3", "4", "5", "6", "7", "8", "9"}

Digits == {"0", "1", "2", "3", "4", "5", "6", "7", "8", "9"}

\* the decimal numeral template interpolation prints for an integer
DigitChar(d) ==
    CASE d = 0 -> "0" [] d = 1 -> "1" [] d = 2 -> "2" [] d = 3 -> "3" [] d = 4 -> "4"
      [] d = 5 -> "5" [] d = 6 -> "6" [] d = 7 -> "7" [] d = 8 -> "8" [] OTHER -> "9"

RECURSIVE NumStr(_)
NumStr(n) ==
    IF n < 0 THEN <<"-">> \o NumStr(-n)
    ELSE IF n < 10 THEN <<DigitChar(n)>>
    ELSE NumStr(n \div 10) \o <<DigitChar(n % 10)>>

-----------------------------------------------------------------------------
(* Chapter content: a sequence of lines, each a string *)

H1Mark == <<"#", " ">>
H2Mark == <<"#", "#", " ">>

\* a line matched by /^#\s+(.+)$/m
IsTitleLine(line) == StartsWith(line, H1Mark) /\ Len(line) > Len(H1Mark)

\* a line matched by /^##\s+(.+)$/gm
IsSectionLine(line) == StartsWith(line, H2Mark) /\ Len(line) > Len(H2Mark)

\* content.match(/^#\s+(.+)$/m): the captured text of the first title line, or <<>>
TitleMatch(content) ==
    LET hits == SelectSeq(content, IsTitleLine)
    IN  IF hits = <<>> THEN <<>> ELSE TrimLeft(SubSeq(hits[1], Len(H1Mark) + 1, Len(hits[1])))

HasTitleMatch(content) == SelectSeq(content, IsTitleLine) # <<>>

-----------------------------------------------------------------------------
(* author-utils.js *)

AmpSep   == <<" ", "&", " ">>
CommaSep == <<",", " ">>

\* metadata.authors && Array.isArray(metadata.authors) && metadata.authors.length > 0
HasAuthorsArray(meta) == meta.authors # <<>>

AuthorNames(meta) == [i \in 1..Len(meta.authors) |-> meta.authors[i].name]

\* a formatter that joins every name with ", " (the last one too)
CommaJoinedNames(names) == Join(names, CommaSep)

\* the three branches of getAuthorString on the names array
FormatNames(names) ==
    IF Len(names) = 1 THEN names[1]
    ELSE IF Len(names) = 2 THEN names[1] \o AmpSep \o names[2]
    ELSE Join(SubSeq(names, 1, Len(names) - 1), CommaSep) \o AmpSep \o names[Len(names)]

getAuthorString(meta) ==
    IF HasAuthorsArray(meta) THEN FormatNames(AuthorNames(meta)) ELSE meta.author

\* String.prototype.split on the separator characters of /\s*[&,]\s*/
RECURSIVE SplitOn(_, _, _)
SplitOn(s, seps, cur) ==
    IF s = <<>> THEN <<cur>>
    ELSE IF Head(s) \in seps THEN <<cur>> \o SplitOn(Tail(s), seps, <<>>)
    ELSE SplitOn(Tail(s), seps, Append(cur, Head(s)))

NonEmpty(s) == Len(s) > 0

\* metadata.author.split(/\s*[&,]\s*/).map(trim).filter(name => name.length > 0)
SplitLegacyAuthor(author) ==
    LET parts == SplitOn(author, {"&", ","}, <<>>)
    IN  SelectSeq([i \in 1..Len(parts) |-> Trim(parts[i])], NonEmpty)

getAuthorArray(meta) ==
    IF HasAuthorsArray(meta) THEN AuthorNames(meta)
    ELSE IF meta.author # <<>> THEN SplitLegacyAuthor(meta.author)
    ELSE <<>>

-----------------------------------------------------------------------------
(* The inputs of a build: a pool of chapter files and of metadata records *)

F10   == <<"1", "0", ".", "m", "d">>
F2    == <<"2", ".", "m", "d">>
FTxt  == <<"n", ".", "t", "x", "t">>
FMdb  == <<"a", ".", "m", "d", "b", ".", "m", "d">>
FMdMd == <<"a", "b", ".", "m", "d", ".", "m", "d">>

FilePool == {F10, F2, FTxt, FMdb, FMdMd}

\* fs.readFile of a chapter: its lines.  No chapter of the pool holds an image
\* reference, so processImagePaths leaves each of them as it is.
ContentOf(file) ==
    CASE file = F10   -> <<<<"#", " ", "I", "n", "t", "r", "o", " ", "A">>, <<"#", "#", " ", "S", "e", "t", "u", "p">>, <<"t", "e", "x", "t">>, <<"#", "#", " ", "S", "e", "t", "u", "p">>>>
      [] file = F2    -> <<<<"#", "#", " ", "S", "e", "t", "u", "p", "!">>, <<"t", "e", "x", "t">>>>
      [] file = FMdb  -> <<<<"#", " ", "I", "n", "t", "r", "o">>, <<"t", "e", "x", "t">>>>
      [] file = FMdMd -> <<<<"t", "e", "x", "t">>>>
      [] OTHER        -> <<<<"t", "e", "x", "t">>>>

Ada   == <<"A", "d", "a">>
Lin   == <<"L", "i", "n">>
Grace == <<"G", "r", "a", "c", "e">>

MetaStructured ==
    [title |-> <<"B", "o", "o", "k">>, subtitle |-> <<>>, author |-> <<>>,
     authors |-> <<[name |-> Ada], [name |-> Lin]>>,
     description |-> <<"t", "e", "x", "t">>, date |-> <<"2", "0", "2", "3">>]

MetaLegacy ==
    [title |-> <<"C", "#", " ", "B", "o", "o", "k">>, subtitle |-> <<"S", "u", "b">>, author |-> <<"A", "d", "a", ",", " ", "L", "i", "n">>,
     authors |-> <<>>, description |-> <<>>, date |-> <<"2", "0", "2", "3">>]

MetadataPool == {MetaStructured, MetaLegacy}

\* a book.yaml without a title
MetaNoTitle == [MetaStructured EXCEPT !.title = <<>>]

\* what a template literal prints for a field: the text, or undefined when the
\* record has no such field (written <<>>)
Interpolate(v) == IF v = <<>> THEN <<"u", "n", "d", "e", "f", "i", "n", "e", "d">> ELSE v

-----------------------------------------------------------------------------
(* build-web.js *)

\* processChapter: the chapter object of one file
processChapter(file) ==
    LET content == ContentOf(file)
        slug    == ReplaceFirst(file, DotMd, <<>>)
    IN  [filename   |-> ReplaceFirst(file, DotMd, DotHtml),
         slug       |-> slug,
         title      |-> IF HasTitleMatch(content) THEN TitleMatch(content) ELSE slug,
         rawContent |-> content]

NoChapter == [filename |-> <<>>, slug |-> <<>>, title |-> <<>>, rawContent |-> <<>>]

\* allChapters.findIndex(c => c.slug === chapter.slug), 1-based; 0 for -1
FindIndexBySlug(allChapters, slug) ==
    LET hits == {i \in 1..Len(allChapters) : allChapters[i].slug = slug}
    IN  IF hits = {} THEN 0 ELSE CHOOSE i \in hits : \A j \in hits : i <= j

\* generateChapterPage: the previous and next chapter handed to the template
\* (NoChapter stands for null)
generateChapterPage(chapter, allChapters) ==
    LET currentIndex == FindIndexBySlug(allChapters, chapter.slug)
    IN  [chapter     |-> chapter,
         prevChapter |-> IF currentIndex > 1 THEN allChapters[currentIndex - 1]
                         ELSE NoChapter,
         nextChapter |-> IF currentIndex < Len(allChapters) THEN allChapters[currentIndex + 1]
                         ELSE NoChapter]

\* generateSEOFiles: the <loc> entries of sitemap.xml after the base url
generateSitemap(chapters) ==
    <<<<"/">>>> \o [i \in 1..Len(chapters) |-> <<"/", "c", "h", "a", "p", "t", "e", "r", "s", "/">> \o chapters[i].filename]

-----------------------------------------------------------------------------
(* build-kindle.js *)

\* title.toLowerCase().replace(/[^a-z0-9]+/g, '-'): every run of other characters
\* becomes one hyphen
RECURSIVE HyphenateRuns(_, _)
HyphenateRuns(s, inRun) ==
    IF s = <<>> THEN <<>>
    ELSE IF Lower(Head(s)) \in LowerAlnum
         THEN <<Lower(Head(s))>> \o HyphenateRuns(Tail(s), FALSE)
    ELSE IF inRun THEN HyphenateRuns(Tail(s), TRUE)
    ELSE <<"-">> \o HyphenateRuns(Tail(s), TRUE)

\* .replace(/^-|-$/g, '')
StripEdgeHyphens(s) ==
    LET a == IF s # <<>> /\ Head(s) = "-" THEN Tail(s) ELSE s
    IN  IF a # <<>> /\ a[Len(a)] = "-" THEN SubSeq(a, 1, Len(a) - 1) ELSE a

Anchor(title) == StripEdgeHyphens(HyphenateRuns(title, FALSE))

\* path.basename(filePath).match(/^(\d+)/)?.[1]; <<>> for undefined
RECURSIVE LeadingDigits(_)
LeadingDigits(s) ==
    IF s # <<>> /\ Head(s) \in Digits THEN <<Head(s)>> \o LeadingDigits(Tail(s)) ELSE <<>>

\* the sections of one chapter: its "## " lines
Sections(content) ==
    LET lines == SelectSeq(content, IsSectionLine)
    IN  [i \in 1..Len(lines) |->
            LET sectionTitle == Trim(SubSeq(lines[i], Len(H2Mark) + 1, Len(lines[i])))
            IN  [title |-> sectionTitle, anchor |-> Anchor(sectionTitle)]]

\* first pass: one TOC entry per chapter whose content has a "# " title line
RECURSIVE TocEntries(_)
TocEntries(paths) ==
    IF paths = <<>> THEN <<>>
    ELSE LET content == ContentOf(Basename(Head(paths)))
             title   == Trim(TitleMatch(content))
         IN  (IF HasTitleMatch(content)
              THEN <<[number   |-> LeadingDigits(Basename(Head(paths))),
                      title    |-> title,
                      anchor   |-> Anchor(title),
                      sections |-> Sections(content)]>>
              ELSE <<>>) \o TocEntries(Tail(paths))

\* the unified table of contents page: entry.number || (index + 1)
TocPage(entries) ==
    [i \in 1..Len(entries) |->
        [chapterNum |-> IF entries[i].number # <<>> THEN entries[i].number ELSE NumStr(i),
         title      |-> entries[i].title,
         anchor     |-> entries[i].anchor,
         sections   |-> entries[i].sections]]

\* createTitlePage of build-kindle.js: the YAML block and the page body
KindleTitlePage(meta) ==
    [yaml |-> [title |-> Interpolate(meta.title), subtitle |-> meta.subtitle,
               author |-> getAuthorString(meta), date |-> Interpolate(meta.date)],
     body |-> <<Interpolate(meta.title), meta.subtitle, getAuthorString(meta),
                Interpolate(meta.date), meta.description>>]

\* build/kindle/book.md
KindleBook(paths, meta) ==
    [titlePage |-> KindleTitlePage(meta),
     toc       |-> TocPage(TocEntries(paths)),
     body      |-> [i \in 1..Len(paths) |-> ContentOf(Basename(paths[i]))]]

-----------------------------------------------------------------------------
(* build-pdf.js: assembling temp/combined.md *)

HashSpace == <<"#", " ">>

Includes(s, pat) == IndexOf(s, pat) > 0

\* createTitlePage of build-pdf.js: the YAML block, dated by new Date()
PdfTitlePage(meta, now) ==
    [title |-> Interpolate(meta.title), subtitle |-> meta.subtitle,
     author |-> getAuthorArray(meta), abstract |-> meta.description, date |-> now]

\* whether the text of the title page contains "# "
TitlePageIncludesHash(meta) ==
    \/ Includes(Interpolate(meta.title), HashSpace)
    \/ Includes(meta.subtitle, HashSpace)
    \/ Includes(meta.description, HashSpace)
    \/ \E i \in 1..Len(getAuthorArray(meta)) : Includes(getAuthorArray(meta)[i], HashSpace)

ContentIncludesHash(content) == \E i \in 1..Len(content) : Includes(content[i], HashSpace)

NewPage == [kind |-> "newpage", content |-> <<>>]

\* the chapter loop: a break is added when combinedContent.includes('# ')
RECURSIVE PdfBody(_, _, _)
PdfBody(files, blocks, includesHash) ==
    IF files = <<>> THEN blocks
    ELSE LET content == ContentOf(Head(files))
         IN  PdfBody(Tail(files),
                     blocks \o (IF includesHash THEN <<NewPage>> ELSE <<>>)
                            \o <<[kind |-> "chapter", content |-> content]>>,
                     includesHash \/ ContentIncludesHash(content))

\* temp/combined.md
PdfCombined(files, meta, now) ==
    [titlePage |-> PdfTitlePage(meta, now),
     blocks    |-> PdfBody(files, <<>>, TitlePageIncludesHash(meta))]

-----------------------------------------------------------------------------
(* build-leanpub.js *)

NL == <<"\n">>

DedicationTxt  == <<"d", "e", "d", "i", "c", "a", "t", "i", "o", "n", ".", "t", "x", "t">>
AboutAuthorTxt == <<"a", "b", "o", "u", "t", "-", "a", "u", "t", "h", "o", "r", ".", "t", "x", "t">>

\* line => line.trim(), as a truth value
NonBlank(line) == Trim(line) # <<>>

\* a manifest with the file names separated by blanks
ChapterManifestOnOneLine(markdownFiles) == Join(markdownFiles, <<" ">>)

\* Book.txt as buildLeanpub first writes it
ChapterManifest(markdownFiles) == Join(markdownFiles, NL)

\* createLeanpubFiles: Book.txt re-read, split, filtered and wrapped
FullBookTxt(currentBookTxt) ==
    LET chaptersArray == SelectSeq(SplitOn(currentBookTxt, {"\n"}, <<>>), NonBlank)
    IN  Join(<<DedicationTxt>> \o chaptersArray \o <<AboutAuthorTxt>>, NL)

-----------------------------------------------------------------------------
(* The build targets as operations on the file system *)

Targets == {"web", "pdf", "kindle", "leanpub"}

\* the values new Date().toLocaleDateString() may give
Dates == {<<"1", "/", "1">>, <<"1", "/", "2">>}

RECURSIVE Perms(_)
Perms(S) ==
    IF S = {} THEN {<<>>}
    ELSE UNION {{<<x>> \o p : p \in Perms(S \ {x})} : x \in S}

\* nothing has been built yet
OutputsEmpty ==
    /\ built = {}
    /\ rebuilt = {}
    /\ chapterOrder = [t \in Targets |-> <<>>]
    /\ webPages = <<>>
    /\ sitemap = <<>>
    /\ kindleBook = [titlePage |-> <<>>, toc |-> <<>>, body |-> <<>>]
    /\ pdfCombined = [titlePage |-> <<>>, blocks |-> <<>>]
    /\ bookTxt = <<>>

CorpusInit ==
    /\ dirFiles \in {S \in SUBSET FilePool : Cardinality(S) <= MaxFiles}
    /\ listing \in Perms(dirFiles)
    /\ metadata \in MetadataPool
    /\ OutputsEmpty

\* the file system enumerates the directory in another order (two neighbours
\* change places; every order is reached by repeating this)
Reenumerate ==
    /\ \E i \in 1..(Len(listing) - 1) :
           listing' = [listing EXCEPT ![i] = listing[i + 1], ![i + 1] = listing[i]]
    /\ UNCHANGED <<dirFiles, metadata, built, rebuilt, chapterOrder, webPages, sitemap,
                   kindleBook, pdfCombined, bookTxt>>
    /\ UNCHANGED outsideCorpus

BuildWeb ==
    LET markdownFiles == MarkdownFiles(listing)
        chapters      == [i \in 1..Len(markdownFiles) |-> processChapter(markdownFiles[i])]
    IN  /\ chapterOrder' = [chapterOrder EXCEPT !["web"] = markdownFiles]
        /\ webPages' = [i \in 1..Len(chapters) |-> generateChapterPage(chapters[i], chapters)]
        /\ sitemap' = generateSitemap(chapters)
        /\ built' = built \cup {"web"}
        /\ rebuilt' = rebuilt \cup (built \cap {"web"})
        /\ UNCHANGED <<dirFiles, listing, metadata, kindleBook, pdfCombined, bookTxt>>
        /\ UNCHANGED outsideCorpus

\* a build that stamps the manuscript body with the wall clock
BuildKindleStamped ==
    LET sorted        == MarkdownFiles(listing)
        markdownFiles == [i \in 1..Len(sorted) |-> PathJoin(ChaptersDir, sorted[i])]
        book          == KindleBook(markdownFiles, metadata)
    IN  /\ chapterOrder' = [chapterOrder EXCEPT !["kindle"] = markdownFiles]
        /\ \E now \in Dates : kindleBook' = [book EXCEPT !.titlePage.body = Append(@, now)]
        /\ built' = built \cup {"kindle"}
        /\ rebuilt' = rebuilt \cup (built \cap {"kindle"})
        /\ UNCHANGED <<dirFiles, listing, metadata, webPages, sitemap, pdfCombined,
                       bookTxt>>
        /\ UNCHANGED outsideCorpus

BuildKindle ==
    LET sorted        == MarkdownFiles(listing)
        markdownFiles == [i \in 1..Len(sorted) |-> PathJoin(ChaptersDir, sorted[i])]
    IN  /\ chapterOrder' = [chapterOrder EXCEPT !["kindle"] = markdownFiles]
        /\ kindleBook' = KindleBook(markdownFiles, metadata)
        /\ built' = built \cup {"kindle"}
        /\ rebuilt' = rebuilt \cup (built \cap {"kindle"})
        /\ UNCHANGED <<dirFiles, listing, metadata, webPages, sitemap, pdfCombined,
                       bookTxt>>
        /\ UNCHANGED outsideCorpus

\* buildPDF up to the write of temp/combined.md
PdfAssemble ==
    LET markdownFiles == MarkdownFiles(listing)
    IN  /\ chapterOrder' = [chapterOrder EXCEPT !["pdf"] = markdownFiles]
        /\ \E now \in Dates : pdfCombined' = PdfCombined(markdownFiles, metadata, now)
        /\ built' = built \cup {"pdf"}
        /\ rebuilt' = rebuilt \cup (built \cap {"pdf"})
        /\ UNCHANGED <<dirFiles, listing, metadata, webPages, sitemap, kindleBook,
                       bookTxt>>
        /\ UNCHANGED outsideCorpus

BuildLeanpub ==
    LET markdownFiles == MarkdownFiles(listing)
    IN  /\ chapterOrder' = [chapterOrder EXCEPT !["leanpub"] = markdownFiles]
        /\ bookTxt' = FullBookTxt(ChapterManifest(markdownFiles))
        /\ built' = built \cup {"leanpub"}
        /\ rebuilt' = rebuilt \cup (built \cap {"leanpub"})
        /\ UNCHANGED <<dirFiles, listing, metadata, webPages, sitemap, kindleBook,
                       pdfCombined>>
        /\ UNCHANGED outsideCorpus

CorpusNext ==
    \/ Reenumerate
    \/ BuildWeb
    \/ BuildKindle
    \/ PdfAssemble
    \/ BuildLeanpub

-----------------------------------------------------------------------------
(* Properties of the chapter corpus and of the assembled targets *)

\* the chapter file names a target derived (build-kindle keeps them as paths)
DerivedFiles(t) ==
    IF t = "kindle" THEN [i \in 1..Len(chapterOrder[t]) |-> Basename(chapterOrder[t][i])]
    ELSE chapterOrder[t]

\* C1: every target that has been built derived exactly the files ending in
\* .md, each once, in ascending lexical order, whatever order the directory
\* was enumerated in; hence no two targets disagree.
C1_SameLexicalOrder ==
    \A t \in built :
        LET order == DerivedFiles(t)
        IN  /\ Range(order) = {f \in dirFiles : EndsWith(f, DotMd)}
            /\ \A i, j \in 1..Len(order) : i < j => StrLess(order[i], order[j])
            /\ \A u \in built : DerivedFiles(u) = order

\* C1 witness: all four targets built from a directory enumerated out of order
\* that holds a non-chapter file; "10.md" sorts before "2.md".
C1_Witness ==
    /\ built = Targets
    /\ listing = <<F2, FTxt, F10>>
    /\ chapterOrder["web"] = <<F10, F2>>
    /\ DerivedFiles("kindle") = <<F10, F2>>

\* C2 (as claimed): in the generated chapter pages the first chapter has no
\* previous chapter, the last has no next chapter, and every other link is the
\* chapter immediately before/after in corpus order.
C2_PrevNextAreNeighbours ==
    "web" \in built =>
        \A i \in 1..Len(webPages) :
            /\ webPages[i].prevChapter =
                   (IF i = 1 THEN NoChapter ELSE webPages[i - 1].chapter)
            /\ webPages[i].nextChapter =
                   (IF i = Len(webPages) THEN NoChapter ELSE webPages[i + 1].chapter)

\* the anchors of the headings of one chapter in the combined table of contents
ChapterAnchors(entry) ==
    <<entry.anchor>> \o [i \in 1..Len(entry.sections) |-> entry.sections[i].anchor]

\* C4 (as claimed): within one chapter the anchors given to its headings are
\* pairwise distinct, also when two headings have the same text.
C4_AnchorsDistinct ==
    "kindle" \in built =>
        \A e \in 1..Len(kindleBook.toc) :
            LET anchors == ChapterAnchors(kindleBook.toc[e])
            IN  \A i, j \in 1..Len(anchors) : i # j => anchors[i] # anchors[j]

\* what of a target's output is structure: everything but the date of the YAML
\* metadata block of the PDF title page
StructuralOutput(t) ==
    CASE t = "web"     -> <<sitemap, webPages>>
      [] t = "kindle"  -> <<kindleBook.titlePage.body, kindleBook.toc, kindleBook.body>>
      [] t = "pdf"     -> <<[pdfCombined.titlePage EXCEPT !.date = <<>>], pdfCombined.blocks>>
      [] t = "leanpub" -> <<bookTxt>>

\* C6: once a target has been built, no later step (a rebuild at another time,
\* from another enumeration order) changes its structural output.
C6_RebuildIdempotent ==
    [][\A t \in built : StructuralOutput(t)' = StructuralOutput(t)]_vars

\* C6 witness: every target rebuilt over its own output, the PDF title page
\* dated differently from the first date.
C6_Witness ==
    /\ rebuilt = Targets
    /\ pdfCombined.titlePage.date = <<"1", "/", "2">>
    /\ Len(pdfCombined.blocks) >= 3
    /\ Len(bookTxt) > Len(DedicationTxt) + Len(AboutAuthorTxt) + 2

-----------------------------------------------------------------------------
(* Calls of the author utilities on a metadata record *)

NamePool == {Ada, Lin, Grace}

RECURSIVE SeqsUpTo(_, _)
SeqsUpTo(S, n) ==
    IF n = 0 THEN {<<>>}
    ELSE LET shorter == SeqsUpTo(S, n - 1)
         IN  shorter \cup {Append(s, x) : s \in {t \in shorter : Len(t) = n - 1}, x \in S}

LegacyAuthorPool == {<<>>, Ada, <<"A", "d", "a", " ", "&", " ", "L", "i", "n">>, <<"A", "d", "a", ",", " ", "L", "i", "n">>, <<"A", "d", "a", ",", "L", "i", "n", " ", "&", " ", "G", "r", "a", "c", "e">>}

\* metadata records of both shapes: a structured authors list, or the legacy string
AuthorInputs ==
    {[MetaStructured EXCEPT !.authors = [i \in 1..Len(names) |-> [name |-> names[i]]]] :
        names \in SeqsUpTo(NamePool, MaxAuthors)}
    \cup {[MetaLegacy EXCEPT !.author = a] : a \in LegacyAuthorPool}

AuthorsIdle ==
    /\ authorCalls = {}
    /\ authorString = <<>>
    /\ authorArray = <<>>

AuthorsInit ==
    /\ metadata \in AuthorInputs
    /\ AuthorsIdle

CallGetAuthorString ==
    /\ authorString' = getAuthorString(metadata)
    /\ authorCalls' = authorCalls \cup {"getAuthorString"}
    /\ UNCHANGED authorArray
    /\ UNCHANGED outsideAuthors

CallGetAuthorArray ==
    /\ authorArray' = getAuthorArray(metadata)
    /\ authorCalls' = authorCalls \cup {"getAuthorArray"}
    /\ UNCHANGED authorString
    /\ UNCHANGED outsideAuthors

AuthorsNext ==
    \/ CallGetAuthorString
    \/ CallGetAuthorArray

\* the names each followed by its separator: ", " after every name but the last
\* two, " & " after the last but one, nothing after the last
RECURSIVE WithSeparators(_, _)
WithSeparators(names, i) ==
    IF i > Len(names) THEN <<>>
    ELSE names[i]
         \o (IF i = Len(names) THEN <<>>
             ELSE IF i = Len(names) - 1 THEN <<" ", "&", " ">>
             ELSE <<",", " ">>)
         \o WithSeparators(names, i + 1)

\* C5: for a record with an authors list, getAuthorString returns the names in
\* order, separated by ", " except for " & " before the last; so one author
\* gives the name, two give "A & B", and Ada, Lin, Grace give "Ada, Lin & Grace".
C5_AuthorStringFormat ==
    ("getAuthorString" \in authorCalls /\ metadata.authors # <<>>) =>
        /\ authorString =
               WithSeparators([i \in 1..Len(metadata.authors) |-> metadata.authors[i].name], 1)
        /\ (Len(metadata.authors) = 1 => authorString = metadata.authors[1].name)
        /\ (Len(metadata.authors) = 2 =>
               authorString = metadata.authors[1].name \o <<" ", "&", " ">>
                              \o metadata.authors[2].name)
        /\ (metadata.authors = <<[name |-> Ada], [name |-> Lin], [name |-> Grace]>> =>
               authorString = <<"A", "d", "a", ",", " ", "L", "i", "n", " ", "&", " ", "G", "r", "a", "c", "e">>)

\* C5 witness: the string for Ada, Lin, Grace has been computed
C5_Witness ==
    /\ "getAuthorString" \in authorCalls
    /\ metadata.authors = <<[name |-> Ada], [name |-> Lin], [name |-> Grace]>>
    /\ authorString = <<"A", "d", "a", ",", " ", "L", "i", "n", " ", "&", " ", "G", "r", "a", "c", "e">>

-----------------------------------------------------------------------------
(* enhanced-features.js: building the table of contents *)

\* h1 .. h6
HeadingLevels == 1..6

\* let counters = { h1: 0, h2: 0, h3: 0, h4: 0, h5: 0, h6: 0 }
NoCounters == [i \in HeadingLevels |-> 0]

\* `heading-${heading.tagName.toLowerCase()}-${index}`
GeneratedId(level, index) ==
    <<"h", "e", "a", "d", "i", "n", "g", "-", "h">> \o NumStr(level) \o <<"-">> \o NumStr(index)

\* heading.id || the generated id (an empty id attribute is falsy)
HeadingId(heading, index) ==
    IF heading.id # <<>> THEN heading.id ELSE GeneratedId(heading.level, index)

\* the counters with the reset loop left out
ProcessHeadingNoReset(c, level) == [c EXCEPT ![level] = c[level] + 1]

\* for (i = level + 1; i <= 6; i++) counters[h_i] = 0;  counters[h_level]++
ProcessHeading(c, level) ==
    [i \in HeadingLevels |->
        IF i > level THEN 0 ELSE IF i = level THEN c[i] + 1 ELSE c[i]]

\* the glyphs U+2022 and U+2013 of the level-3 and deeper markers
Bullet == <<"bullet">>
Dash == <<"dash">>

\* the text of the .toc-marker span
Marker(c, level) ==
    CASE level = 1 -> NumStr(c[1])
      [] level = 2 -> NumStr(c[1]) \o <<".">> \o NumStr(c[2])
      [] level = 3 -> Bullet
      [] OTHER -> Dash

\* one iteration of headings.forEach((heading, index) => ...) on the loop's state
ScanHeading(st, index) ==
    LET heading == st.headings[index + 1]
        id == HeadingId(heading, index)
        c == ProcessHeading(st.counters, heading.level)
    IN  [headings |-> [st.headings EXCEPT ![index + 1].id = id],
         counters |-> c,
         tocHTML |-> Append(st.tocHTML,
                            [headingId |-> id,
                             marker |-> Marker(c, heading.level),
                             level |-> heading.level])]

\* the iterations from index on
RECURSIVE ScanFrom(_, _)
ScanFrom(st, index) ==
    IF index >= Len(st.headings) THEN st ELSE ScanFrom(ScanHeading(st, index), index + 1)

\* tocList.innerHTML = tocHTML: the .toc-link elements, none active
LinksOf(html) ==
    [i \in 1..Len(html) |->
        [headingId |-> html[i].headingId, marker |-> html[i].marker,
         level |-> html[i].level, active |-> FALSE]]

-----------------------------------------------------------------------------
(* enhanced-features.js: updateActiveTocItem and the events that run it *)

ScrollOffset == 120
NearTopLimit == 200
ClickOffset == 100

Abs(x) == IF x < 0 THEN -x ELSE x

Max(a, b) == IF a >= b THEN a ELSE b

\* the forEach of updateActiveTocItem from heading i on; active is the index of
\* activeHeading (0: null) and closest is closestDistance (Infinity while null)
RECURSIVE ClosestAbove(_, _, _, _, _)
ClosestAbove(hs, i, scrollPosition, active, closest) ==
    IF i > Len(hs) THEN active
    ELSE LET headingTop == hs[i].top
             distance == Abs(scrollPosition - headingTop)
         IN  IF headingTop <= scrollPosition /\ (active = 0 \/ distance < closest)
             THEN ClosestAbove(hs, i + 1, scrollPosition, i, distance)
             ELSE ClosestAbove(hs, i + 1, scrollPosition, active, closest)

\* always the first heading
SelectFirst(hs, y) == IF Len(hs) > 0 THEN 1 ELSE 0

\* the index of activeHeading after the fallback to headings[0]
SelectActive(hs, y) ==
    LET scrollPosition == y + ScrollOffset
        active == ClosestAbove(hs, 1, scrollPosition, 0, 0)
    IN  IF active = 0 \/ scrollPosition < NearTopLimit
        THEN (IF Len(hs) > 0 THEN 1 ELSE active)
        ELSE active

\* link.classList.remove('active'), then add it where data-heading-id matches
MarkActive(links, hs, active) ==
    [i \in 1..Len(links) |->
        [links[i] EXCEPT !.active = (active # 0 /\ links[i].headingId = hs[active].id)]]

\* document.getElementById(id): the first element in document order with the id
GetElementById(hs, id) ==
    IF \E i \in 1..Len(hs) : hs[i].id = id
    THEN CHOOSE i \in 1..Len(hs) : hs[i].id = id /\ \A j \in 1..(i - 1) : hs[j].id # id
    ELSE 0

\* the offsetTop values a heading may have, the positions the window scrolls to
TopPool == {0, 100, 500, 1200}
ScrollPositions == {0, 50, 400, 600, 1100}

\* the offsetTops of n headings in document order
Layouts(n) == {t \in [1..n -> TopPool] : \A i \in 1..(n - 1) : t[i] < t[i + 1]}

\* a page as the browser has loaded it, before initTableOfContents
PageLoaded(doc) ==
    /\ headings = doc
    /\ scanned = 0
    /\ counters = NoCounters
    /\ tocHTML = <<>>
    /\ tocLinks = <<>>
    /\ navReady = FALSE
    /\ scrollY = 0
    /\ scrollTimeout = FALSE
    /\ initialTimer = FALSE
    /\ activeHeading = 0

\* a page without headings
NavIdle == PageLoaded(<<>>)

\* pages whose headings carry no id, of every level
TocDocuments ==
    {[i \in 1..Len(ls) |-> [level |-> ls[i], id |-> <<>>, top |-> 100 * (i - 1)]] :
        ls \in SeqsUpTo(HeadingLevels, MaxHeadings)}

TocInit == \E doc \in TocDocuments : PageLoaded(doc)

\* initTableOfContents: one iteration of the forEach that builds tocHTML
TocScanHeading ==
    /\ ~navReady
    /\ Len(headings) >= 2
    /\ scanned < Len(headings)
    /\ LET st == ScanHeading([headings |-> headings, counters |-> counters,
                              tocHTML |-> tocHTML], scanned)
       IN  /\ headings' = st.headings
           /\ counters' = st.counters
           /\ tocHTML' = st.tocHTML
    /\ scanned' = scanned + 1
    /\ UNCHANGED <<tocLinks, navReady, scrollY, scrollTimeout, initialTimer, activeHeading>>
    /\ UNCHANGED outsideNav

\* initTableOfContents after the forEach: the links are created, the listeners
\* registered, the 200 ms timer armed and updateActiveTocItem run once
TocFinish ==
    /\ ~navReady
    /\ Len(headings) >= 2
    /\ scanned = Len(headings)
    /\ navReady' = TRUE
    /\ initialTimer' = TRUE
    /\ activeHeading' = SelectActive(headings, scrollY)
    /\ tocLinks' = MarkActive(LinksOf(tocHTML), headings, SelectActive(headings, scrollY))
    /\ UNCHANGED <<headings, scanned, counters, tocHTML, scrollY, scrollTimeout>>
    /\ UNCHANGED outsideNav

TocNext ==
    \/ TocScanHeading
    \/ TocFinish

\* pages with two kinds of heading, with and without ids of their own
PresetIds == {<<>>, <<"a">>}

NavDocuments ==
    UNION {{[i \in 1..n |-> [level |-> ls[i], id |-> ids[i], top |-> t[i]]] :
               ls \in [1..n -> {1, 2}], ids \in [1..n -> PresetIds], t \in Layouts(n)} :
           n \in 2..MaxNavHeadings}

\* the state in which initTableOfContents leaves a page scrolled to y
InitTableOfContents(doc, y) ==
    LET st == ScanFrom([headings |-> doc, counters |-> NoCounters, tocHTML |-> <<>>], 0)
        active == SelectActive(st.headings, y)
    IN  [headings |-> st.headings, counters |-> st.counters, tocHTML |-> st.tocHTML,
         tocLinks |-> MarkActive(LinksOf(st.tocHTML), st.headings, active),
         activeHeading |-> active]

NavInit ==
    \E doc \in NavDocuments :
        LET r == InitTableOfContents(doc, 0)
        IN  /\ headings = r.headings
            /\ scanned = Len(doc)
            /\ counters = r.counters
            /\ tocHTML = r.tocHTML
            /\ tocLinks = r.tocLinks
            /\ navReady = TRUE
            /\ scrollY = 0
            /\ scrollTimeout = FALSE
            /\ initialTimer = TRUE
            /\ activeHeading = r.activeHeading

\* updateActiveTocItem on the headings hs with the window scrolled to y
UpdateActiveTocItem(hs, y) ==
    /\ activeHeading' = SelectActive(hs, y)
    /\ tocLinks' = MarkActive(tocLinks, hs, SelectActive(hs, y))

\* a scroll event: clearTimeout(scrollTimeout); scrollTimeout = setTimeout(..., 10)
Scroll ==
    /\ navReady
    /\ \E y \in ScrollPositions \ {scrollY} : scrollY' = y
    /\ scrollTimeout' = TRUE
    /\ UNCHANGED <<headings, scanned, counters, tocHTML, tocLinks, navReady,
                   initialTimer, activeHeading>>
    /\ UNCHANGED outsideNav

\* the scroll throttle timer fires
ScrollTimerFire ==
    /\ navReady
    /\ scrollTimeout
    /\ scrollTimeout' = FALSE
    /\ UpdateActiveTocItem(headings, scrollY)
    /\ UNCHANGED <<headings, scanned, counters, tocHTML, navReady, scrollY, initialTimer>>
    /\ UNCHANGED outsideNav

\* the timer armed by initTableOfContents fires
InitialTimerFire ==
    /\ navReady
    /\ initialTimer
    /\ initialTimer' = FALSE
    /\ UpdateActiveTocItem(headings, scrollY)
    /\ UNCHANGED <<headings, scanned, counters, tocHTML, navReady, scrollY, scrollTimeout>>
    /\ UNCHANGED outsideNav

\* a resize event: the page is laid out again and updateActiveTocItem runs at once
Resize ==
    /\ navReady
    /\ \E t \in Layouts(Len(headings)) :
           /\ headings' = [i \in 1..Len(headings) |-> [headings[i] EXCEPT !.top = t[i]]]
           /\ UpdateActiveTocItem(headings', scrollY)
    /\ UNCHANGED <<scanned, counters, tocHTML, navReady, scrollY, scrollTimeout, initialTimer>>
    /\ UNCHANGED outsideNav

\* a click on a .toc-link: window.scrollTo(target.offsetTop - 100), which the
\* browser clamps at 0 and which raises a scroll event when the position changes
ClickTocLink ==
    /\ navReady
    /\ \E i \in 1..Len(tocLinks) :
           LET target == GetElementById(headings, tocLinks[i].headingId)
               y == Max(0, headings[target].top - ClickOffset)
           IN  /\ target # 0
               /\ y # scrollY
               /\ scrollY' = y
    /\ scrollTimeout' = TRUE
    /\ UNCHANGED <<headings, scanned, counters, tocHTML, tocLinks, navReady,
                   initialTimer, activeHeading>>
    /\ UNCHANGED outsideNav

NavNext ==
    \/ Scroll
    \/ ScrollTimerFire
    \/ InitialTimerFire
    \/ Resize
    \/ ClickTocLink

-----------------------------------------------------------------------------
(* Properties of the table of contents navigator *)

LevelsOf(hs) == [i \in 1..Len(hs) |-> hs[i].level]

MarkersOf(links) == [i \in 1..Len(links) |-> links[i].marker]

TopsOf(hs) == [i \in 1..Len(hs) |-> hs[i].top]

\* the headings H1,H2,H2,H1,H3 and the counters after each of them
ExampleLevels == <<1, 2, 2, 1, 3>>

ExampleCounters ==
    << <<1, 0, 0, 0, 0, 0>>, <<1, 1, 0, 0, 0, 0>>, <<1, 2, 0, 0, 0, 0>>,
       <<2, 0, 0, 0, 0, 0>>, <<2, 0, 1, 0, 0, 0>> >>

AtOrAbove(hs, line) == {i \in 1..Len(hs) : hs[i].top <= line}

\* the one of them closest to the line
ClosestTo(hs, line) ==
    CHOOSE i \in AtOrAbove(hs, line) :
        \A j \in AtOrAbove(hs, line) : hs[j].top <= hs[i].top

\* C7 (as the code has it): once the pending scroll timer has fired, the selected
\* heading is the one closest to and at or above the line scrollY + 120, except
\* that the first heading is selected when no heading is at or above the line or
\* the line is less than 200 from the top; with headings at 0, 500, 1200 a scroll
\* to 600 selects the heading at 500 and a scroll to 0 the first heading
C7_ActiveHeadingRule ==
    (navReady /\ ~scrollTimeout) =>
        LET line == scrollY + 120
        IN  /\ activeHeading =
                   IF AtOrAbove(headings, line) = {} \/ line < 200
                   THEN 1 ELSE ClosestTo(headings, line)
            /\ (TopsOf(headings) = <<0, 500, 1200>> /\ scrollY = 600 => activeHeading = 2)
            /\ (TopsOf(headings) = <<0, 500, 1200>> /\ scrollY = 0 => activeHeading = 1)

\* C7 witness: headings at 0, 500, 1200, the window scrolled to 600 and the
\* heading at 500 selected
C7_Witness ==
    /\ navReady
    /\ ~scrollTimeout
    /\ TopsOf(headings) = <<0, 500, 1200>>
    /\ scrollY = 600
    /\ activeHeading = 2
    /\ tocLinks[2].active

\* C7 as stated: the first heading is selected only when no heading is at or
\* above the line scrollY + 120
C7_ClosestElseFirst ==
    (navReady /\ ~scrollTimeout) =>
        LET line == scrollY + 120
        IN  activeHeading =
                IF AtOrAbove(headings, line) = {} THEN 1 ELSE ClosestTo(headings, line)

ActiveLinks == {i \in 1..Len(tocLinks) : tocLinks[i].active}

\* C8: once the navigator is initialized, exactly one TOC link is active
C8_ExactlyOneActive == navReady => Cardinality(ActiveLinks) = 1

-----------------------------------------------------------------------------
(* enhanced-features.js: grouping of a long chapter list *)

GroupThreshold == 20
GroupSize == 5

IsDigit(c) == c \in Digits

\* the value of a decimal digit
DigitVal(c) == Code(c) - Code("0")

\* parseInt of a run of digits
RECURSIVE ParseInt(_)
ParseInt(ds) ==
    IF ds = <<>> THEN 0
    ELSE 10 * ParseInt(SubSeq(ds, 1, Len(ds) - 1)) + DigitVal(ds[Len(ds)])

\* how many digits s has from position i on (\d+ is greedy)
RECURSIVE DigitRun(_, _)
DigitRun(s, i) == IF i <= Len(s) /\ IsDigit(s[i]) THEN 1 + DigitRun(s, i + 1) ELSE 0

\* s begins with the word w in any case (the /i flag), w given in lower case
StartsWithWord(s, w) ==
    /\ Len(s) >= Len(w)
    /\ \A i \in 1..Len(w) : Lower(s[i]) = w[i]

PartWord == <<"p", "a", "r", "t", " ">>
ChapterWord == <<"c", "h", "a", "p", "t", "e", "r", " ">>

\* title.match(/^(Part \d+)/i)
PartMatches(title) ==
    StartsWithWord(title, PartWord) /\ DigitRun(title, Len(PartWord) + 1) > 0

\* title.match(/^Chapter (\d+)/i)
ChapterMatches(title) ==
    StartsWithWord(title, ChapterWord) /\ DigitRun(title, Len(ChapterWord) + 1) > 0

extractChapterPrefix(title) ==
    IF PartMatches(title)
    THEN SubSeq(title, 1, Len(PartWord) + DigitRun(title, Len(PartWord) + 1))
    ELSE IF ChapterMatches(title)
    THEN LET num == ParseInt(SubSeq(title, Len(ChapterWord) + 1,
                                    Len(ChapterWord) + DigitRun(title, Len(ChapterWord) + 1)))
             groupStart == ((num - 1) \div GroupSize) * GroupSize + 1
             groupEnd == groupStart + GroupSize - 1
         IN  <<"C", "h", "a", "p", "t", "e", "r", "s", " ">> \o NumStr(groupStart) \o <<"-">> \o NumStr(groupEnd)
    ELSE <<"C", "h", "a", "p", "t", "e", "r", "s">>

\* groups.get(prefix).push(item) on a Map kept as its entries in insertion order
PushItem(groups, prefix, item) ==
    IF \E g \in 1..Len(groups) : groups[g].prefix = prefix
    THEN [g \in 1..Len(groups) |->
             IF groups[g].prefix = prefix
             THEN [groups[g] EXCEPT !.items = Append(@, item)]
             ELSE groups[g]]
    ELSE Append(groups, [prefix |-> prefix, items |-> <<item>>])

\* the chapterItems.forEach that fills the Map, from item i on
RECURSIVE CollectGroups(_, _, _)
CollectGroups(titles, i, groups) ==
    IF i > Len(titles) THEN groups
    ELSE CollectGroups(titles, i + 1, PushItem(groups, extractChapterPrefix(titles[i]), i))

\* every group counts
HasItems(items) == Len(items) > 0

\* items.length > 1
HasMultipleItems(items) == Len(items) > 1

\* a .chapter-dropdown-item directly in the container
ItemNode(i) == [kind |-> "item", header |-> <<>>, items |-> <<i>>]

\* a .chapter-group with its header and its own grid
GroupNode(g) == [kind |-> "group", header |-> g.prefix, items |-> g.items]

\* the container as build-web renders it: the items in a row
FlatGrid(n) == [i \in 1..n |-> ItemNode(i)]

\* the container after groupChaptersByPrefix(chapterItems, container)
groupChaptersByPrefix(titles, container) ==
    LET groups == CollectGroups(titles, 1, <<>>)
        meaningfulGroups == SelectSeq(groups, LAMBDA g : HasMultipleItems(g.items))
    IN  IF Len(meaningfulGroups) > 1
        THEN [g \in 1..Len(groups) |->
                 IF HasMultipleItems(groups[g].items)
                 THEN GroupNode(groups[g])
                 ELSE ItemNode(groups[g].items[1])]
        ELSE container

\* chapter lists: after `lead` entries titled Intro, entry i is titled with the
\* word followed by the number ((i - 1) div d) * m + off
WordOf(word, i) ==
    CASE word = "Chapter" -> <<"C", "h", "a", "p", "t", "e", "r", " ">>
      [] word = "Part" -> <<"P", "a", "r", "t", " ">>
      [] OTHER -> IF i % 2 = 0 THEN <<"P", "A", "R", "T", " ">> ELSE <<"P", "a", "r", "t", " ">>

TitleOf(i, lead, word, d, m, off) ==
    IF i <= lead THEN <<"I", "n", "t", "r", "o">>
    ELSE WordOf(word, i) \o NumStr(((i - 1) \div d) * m + off) \o <<":", " ", "x">>

\* 'Intro', 'Chapter 1' .. 'Chapter 20', 'Outro'
FramedBook ==
    [i \in 1..(GroupThreshold + 2) |->
        IF i = 1 THEN <<"I", "n", "t", "r", "o">>
        ELSE IF i = GroupThreshold + 2 THEN <<"O", "u", "t", "r", "o">>
        ELSE <<"C", "h", "a", "p", "t", "e", "r", " ">> \o NumStr(i - 1) \o <<":", " ", "x">>]

ChapterLists ==
    {[i \in 1..n |-> TitleOf(i, lead, word, d, m, off)] :
        n \in (GroupThreshold - 1)..MaxChapters, lead \in {0, GroupThreshold},
        word \in {"Chapter", "Part", "Mixed"}, d \in {1, 7}, m \in {1, 5}, off \in {0, 1}}
    \cup {FramedBook}

\* a page without a chapter list
GroupIdle ==
    /\ chapterItems = <<>>
    /\ chaptersGrid = <<>>
    /\ groupingRan = FALSE

GroupInit ==
    /\ chapterItems \in ChapterLists
    /\ chaptersGrid = FlatGrid(Len(chapterItems))
    /\ groupingRan = FALSE

initChapterGrouping ==
    /\ ~groupingRan
    /\ groupingRan' = TRUE
    /\ chaptersGrid' = IF Len(chapterItems) > GroupThreshold
                       THEN groupChaptersByPrefix(chapterItems, chaptersGrid)
                       ELSE chaptersGrid
    /\ UNCHANGED chapterItems
    /\ UNCHANGED outsideGroup

GroupNext ==
    \/ initChapterGrouping

-----------------------------------------------------------------------------
(* Properties of the chapter grouping *)

\* the prefixes shared by more than one entry
SharedPrefixes(titles) ==
    LET prefix == [i \in 1..Len(titles) |-> extractChapterPrefix(titles[i])]
    IN  {prefix[i] : i \in {k \in 1..Len(titles) :
                                \E j \in 1..Len(titles) : j # k /\ prefix[j] = prefix[k]}}

RenderedGroups(grid) == {k \in 1..Len(grid) : grid[k].kind = "group"}

\* 'Chapter 1' .. 'Chapter 25'
Chapters1To25 == [i \in 1..25 |-> <<"C", "h", "a", "p", "t", "e", "r", " ">> \o NumStr(i) \o <<":", " ", "x">>]

-----------------------------------------------------------------------------
(* build-pdf.js: buildPDF from the pandoc check to the end of the run *)

\* const engines = ['weasyprint', 'wkhtmltopdf', 'puppeteer', 'prince']
Engines == <<"weasyprint", "wkhtmltopdf", "puppeteer", "prince">>

\* what the machine the build runs on provides: whether `pandoc --version` runs,
\* whether src/metadata/book.yaml can be read, which converters work, and whether
\* the HTML rendering of the fallback works
PdfEnvironments ==
    [pandocInstalled : BOOLEAN, metadataReadable : BOOLEAN,
     engineWorks : [{Engines[i] : i \in 1..Len(Engines)} -> BOOLEAN],
     fallbackWorks : BOOLEAN]

\* buildPDF has not been called
PdfIdle ==
    /\ pdfEnv = [pandocInstalled |-> TRUE, metadataReadable |-> TRUE,
                 engineWorks |-> [e \in {Engines[i] : i \in 1..Len(Engines)} |-> TRUE],
                 fallbackWorks |-> TRUE]
    /\ pdfPc = "idle"
    /\ pdfTried = <<>>
    /\ pdfSuccess = FALSE
    /\ pdfExit = 0
    /\ tempDir = FALSE
    /\ distFiles = {}

\* buildPDF is called on a machine of any kind
PdfInit ==
    /\ pdfEnv \in PdfEnvironments
    /\ pdfPc = "start"
    /\ pdfTried = <<>>
    /\ pdfSuccess = FALSE
    /\ pdfExit = 0
    /\ tempDir = FALSE
    /\ distFiles = {}

\* the src/chapters of the runs of buildPDF
PdfCorpus ==
    /\ dirFiles = {F10, F2, FTxt}
    /\ listing \in Perms(dirFiles)
    /\ metadata \in {MetaStructured, MetaNoTitle}
    /\ OutputsEmpty

\* from the pandoc check to the write of temp/combined.md
PdfStart ==
    /\ pdfPc = "start"
    /\ IF ~pdfEnv.pandocInstalled
       THEN \* process.exit(1) in the catch of the pandoc check
            /\ pdfPc' = "exited"
            /\ pdfExit' = 1
            /\ UNCHANGED <<tempDir, chapterOrder, pdfCombined, built, rebuilt>>
       ELSE IF ~pdfEnv.metadataReadable
       THEN \* fs.readFile throws: the outer catch finds no temp and exits
            /\ pdfPc' = "exited"
            /\ pdfExit' = 1
            /\ UNCHANGED <<tempDir, chapterOrder, pdfCombined, built, rebuilt>>
       ELSE LET markdownFiles == MarkdownFiles(listing)
            IN  /\ tempDir' = TRUE
                /\ chapterOrder' = [chapterOrder EXCEPT !["pdf"] = markdownFiles]
                /\ \E now \in Dates :
                       pdfCombined' = PdfCombined(markdownFiles, metadata, now)
                /\ built' = built \cup {"pdf"}
                /\ rebuilt' = rebuilt \cup (built \cap {"pdf"})
                /\ pdfPc' = "engines"
                /\ UNCHANGED pdfExit
    /\ UNCHANGED <<pdfEnv, pdfTried, pdfSuccess, distFiles>>
    /\ UNCHANGED <<dirFiles, listing, metadata, webPages, sitemap, kindleBook, bookTxt>>
    /\ UNCHANGED outsideCorpusAndPdf

\* a failed converter ends the build
PdfTryEngineOrAbort ==
    /\ pdfPc = "engines"
    /\ Len(pdfTried) < Len(Engines)
    /\ LET engine == Engines[Len(pdfTried) + 1]
           ok == pdfEnv.engineWorks[engine]
       IN  /\ pdfTried' = Append(pdfTried, [engine |-> engine, ok |-> ok])
           /\ pdfSuccess' = ok
           /\ distFiles' = IF ok THEN distFiles \cup {"book.pdf"} ELSE distFiles
           /\ pdfPc' = IF ok THEN "cleanup" ELSE "exited"
           /\ pdfExit' = IF ok THEN pdfExit ELSE 1
           /\ tempDir' = IF ok THEN tempDir ELSE FALSE
    /\ UNCHANGED pdfEnv
    /\ UNCHANGED outsidePdf

\* one iteration of for (const engine of engines): the try block of the next
\* engine either reaches success = true; break or throws into the inner catch
PdfTryEngine ==
    /\ pdfPc = "engines"
    /\ Len(pdfTried) < Len(Engines)
    /\ LET engine == Engines[Len(pdfTried) + 1]
           ok == pdfEnv.engineWorks[engine]
       IN  /\ pdfTried' = Append(pdfTried, [engine |-> engine, ok |-> ok])
           /\ pdfSuccess' = ok
           /\ distFiles' = IF ok THEN distFiles \cup {"book.pdf"} ELSE distFiles
           /\ pdfPc' = IF ok THEN "cleanup"
                       ELSE IF Len(pdfTried) + 1 = Len(Engines) THEN "fallback"
                       ELSE "engines"
    /\ UNCHANGED <<pdfEnv, pdfExit, tempDir>>
    /\ UNCHANGED outsidePdf

\* if (!success): the HTML version is rendered into dist (book.html stands for
\* the file named after the title) and buildPDF returns; bookMetadata.title.replace
\* throws when there is no title, and that or a failure of the rendering goes to
\* the outer catch
PdfFallback ==
    /\ pdfPc = "fallback"
    /\ IF metadata.title = <<>>
       THEN /\ UNCHANGED distFiles
            /\ tempDir' = FALSE
            /\ pdfExit' = 1
       ELSE IF pdfEnv.fallbackWorks
       THEN /\ distFiles' = distFiles \cup {"book.html", "pdf-style.css"}
            /\ pdfExit' = 0
            /\ UNCHANGED tempDir
       ELSE /\ distFiles' = distFiles \cup {"pdf-style.css"}
            /\ tempDir' = FALSE
            /\ pdfExit' = 1
    /\ pdfPc' = "exited"
    /\ UNCHANGED <<pdfEnv, pdfTried, pdfSuccess>>
    /\ UNCHANGED outsidePdf

\* after a successful conversion: fs.remove(tempDir) and the report
PdfCleanup ==
    /\ pdfPc = "cleanup"
    /\ tempDir' = FALSE
    /\ pdfPc' = "exited"
    /\ pdfExit' = 0
    /\ UNCHANGED <<pdfEnv, pdfTried, pdfSuccess, distFiles>>
    /\ UNCHANGED outsidePdf

PdfNext ==
    \/ PdfStart
    \/ PdfTryEngine
    \/ PdfFallback
    \/ PdfCleanup

-----------------------------------------------------------------------------
(* Properties of the PDF conversion *)

\* the converters tried so far are the first ones of the list, in its order
TriedInOrder ==
    /\ Len(pdfTried) <= Len(Engines)
    /\ \A i \in 1..Len(pdfTried) : pdfTried[i].engine = Engines[i]

AllConvertersFailed ==
    /\ Len(pdfTried) = Len(Engines)
    /\ \A i \in 1..Len(pdfTried) : ~pdfTried[i].ok

HardFailure == pdfPc = "exited" /\ pdfExit = 1

C11_TempRemovedAtEnd == pdfPc = "exited" => ~tempDir

\* C12: when buildPDF has ended with every converter having failed, the HTML
\* rendering of the manuscript is in dist
C12_HtmlAfterAllFailed ==
    (pdfPc = "exited" /\ AllConvertersFailed) => "book.html" \in distFiles

-----------------------------------------------------------------------------
(* The builds on metadata records with and without the optional fields *)

\* book.yaml with and without title and subtitle
MetaFieldPool ==
    {MetaStructured, MetaLegacy, MetaNoTitle, [MetaLegacy EXCEPT !.title = <<>>]}

\* a fixed src/chapters, a book.yaml of any of these kinds
MetaInit ==
    /\ dirFiles = {F10, F2}
    /\ listing \in Perms(dirFiles)
    /\ metadata \in MetaFieldPool
    /\ OutputsEmpty

\* C13: when book.yaml has no title no target is assembled and no artifact
\* carries the missing title; a missing subtitle does not abort a build and is
\* rendered as the empty string
C13_MissingTitleAborts ==
    /\ (metadata.title = <<>> => built = {})
    /\ (metadata.subtitle = <<>> /\ "kindle" \in built =>
           kindleBook.titlePage.yaml.subtitle = <<>>)
    /\ (metadata.subtitle = <<>> /\ "pdf" \in built =>
           pdfCombined.titlePage.subtitle = <<>>)

-----------------------------------------------------------------------------
(* The flat manuscripts: breaks, table of contents and anchors *)

\* the second pass of buildKindle: every chapter content appended after two
\* newlines, nothing else between them
KindleBlocks(body) == [i \in 1..Len(body) |-> [kind |-> "chapter", content |-> body[i]]]

\* the positions of the chapters in a sequence of manuscript blocks
ChapterPositions(blocks) == {i \in 1..Len(blocks) : blocks[i].kind = "chapter"}

\* a break stands between every two consecutive chapters, none before the
\* first chapter, and there are (chapters - 1) breaks
BreaksBetweenChapters(blocks) ==
    LET chapters == ChapterPositions(blocks)
        breaks   == {i \in 1..Len(blocks) : blocks[i] = NewPage}
    IN  /\ \A i \in chapters : i > 1 => blocks[i - 1] = NewPage
        /\ blocks # <<>> => blocks[1] # NewPage
        /\ chapters # {} => Cardinality(breaks) = Cardinality(chapters) - 1

\* C14 (as claimed): in the flat manuscript of the PDF and of the Kindle build a
\* page break stands between every pair of consecutive chapters and none before
\* the first, so that there are (number of chapters - 1) breaks.
C14_BreakBetweenChapters ==
    /\ "pdf" \in built => BreaksBetweenChapters(pdfCombined.blocks)
    /\ "kindle" \in built => BreaksBetweenChapters(KindleBlocks(kindleBook.body))

\* C15 (as claimed): the combined table of contents has one entry for every
\* chapter of the body, in corpus order, chapters without a level-1 heading
\* included; the entry of a chapter with a level-1 heading carries that heading.
C15_TocEntryPerChapter ==
    "kindle" \in built =>
        /\ Len(kindleBook.toc) = Len(kindleBook.body)
        /\ \A i \in 1..Len(kindleBook.toc) :
               (i <= Len(kindleBook.body) /\ HasTitleMatch(kindleBook.body[i]))
                   => kindleBook.toc[i].title = Trim(TitleMatch(kindleBook.body[i]))

\* every anchor the combined table of contents links to, chapter after chapter
RECURSIVE AllTocAnchors(_)
AllTocAnchors(toc) ==
    IF toc = <<>> THEN <<>> ELSE ChapterAnchors(Head(toc)) \o AllTocAnchors(Tail(toc))

\* C16 (as claimed): all anchors the combined table of contents refers to, the
\* chapter anchors and the section anchors of all chapters together, are
\* pairwise distinct.
C16_TocAnchorsDistinct ==
    "kindle" \in built =>
        LET anchors == AllTocAnchors(kindleBook.toc)
        IN  \A i, j \in 1..Len(anchors) : i < j => anchors[i] # anchors[j]

-----------------------------------------------------------------------------
(* build-kindle.js: the anchor of one heading text *)

\* the characters heading texts are made of
HeadingAlphabet == {"a", "B", "1", " ", "&", "-"}

\* the texts titleMatch[1].trim() and match.replace(/^##\s+/, '').trim() can
\* give: not empty, no white space at either end
HeadingTexts ==
    {t \in SeqsUpTo(HeadingAlphabet, MaxTitleLen) : t # <<>> /\ Trim(t) = t}

AnchorIdle ==
    /\ headingText = <<>>
    /\ anchor = <<>>
    /\ anchorDone = FALSE

AnchorInit ==
    /\ headingText \in HeadingTexts
    /\ anchor = <<>>
    /\ anchorDone = FALSE

\* anchor: title.toLowerCase().replace(/[^a-z0-9]+/g, '-').replace(/^-|-$/g, '')
DeriveAnchor ==
    /\ ~anchorDone
    /\ anchor' = Anchor(headingText)
    /\ anchorDone' = TRUE
    /\ UNCHANGED headingText
    /\ UNCHANGED outsideAnchor

AnchorNext == DeriveAnchor

\* the reference rule, step by step
LowerText(s) == [i \in 1..Len(s) |-> Lower(s[i])]

SpacesToHyphens(s) == [i \in 1..Len(s) |-> IF IsSpace(s[i]) THEN "-" ELSE s[i]]

IsAnchorChar(c) == c \in LowerAlnum \cup {"-"}

RECURSIVE TrimHyphens(_)
TrimHyphens(s) ==
    IF s # <<>> /\ Head(s) = "-" THEN TrimHyphens(Tail(s))
    ELSE IF s # <<>> /\ s[Len(s)] = "-" THEN TrimHyphens(SubSeq(s, 1, Len(s) - 1))
    ELSE s

ReferenceAnchor(text) ==
    TrimHyphens(SelectSeq(SpacesToHyphens(LowerText(text)), IsAnchorChar))

\* C17 (as claimed): the anchor derived for a heading text is the text in lower
\* case, with every white space character replaced by a hyphen, every character
\* outside [a-z0-9-] deleted, and the hyphens at both ends trimmed.
C17_AnchorIsReferenceRule ==
    anchorDone => anchor = ReferenceAnchor(headingText)

-----------------------------------------------------------------------------
(* author-utils.js: the display string and the canonical list *)

\* C18 (as claimed): for a metadata record of either shape the string returned
\* by getAuthorString is the display format of the name list returned by
\* getAuthorArray; the legacy author string is not handed on as it is.
C18_StringFromCanonicalList ==
    (authorCalls = {"getAuthorString", "getAuthorArray"} /\ authorArray # <<>>)
        => authorString = FormatNames(authorArray)

-----------------------------------------------------------------------------
(* author-utils.js: the About the Author(s) section *)

NoAuthorFields ==
    [name |-> <<>>, bio |-> <<>>, email |-> <<>>, twitter |-> <<>>, website |-> <<>>,
     linkedin |-> <<>>, github |-> <<>>]

\* getAuthorObjects: the authors with a leading @ taken off the twitter handle,
\* or name-only objects made from the legacy author string
getAuthorObjects(meta) ==
    IF HasAuthorsArray(meta)
    THEN [i \in 1..Len(meta.authors) |->
             LET processedAuthor == meta.authors[i]
             IN  IF processedAuthor.twitter # <<>> /\ Head(processedAuthor.twitter) = "@"
                 THEN [processedAuthor EXCEPT !.twitter = Tail(@)]
                 ELSE processedAuthor]
    ELSE IF meta.author # <<>>
    THEN LET names == SplitLegacyAuthor(meta.author)
         IN  [i \in 1..Len(names) |-> [NoAuthorFields EXCEPT !.name = names[i]]]
    ELSE <<>>

TwitterBase == <<"h", "t", "t", "p", "s", ":", "/", "/", "t", "w", "i", "t", "t", "e", "r", ".", "c", "o", "m", "/">>
MailTo == <<"m", "a", "i", "l", "t", "o", ":">>

\* the profile URL of a twitter handle
TwitterUrl(handle) ==
    IF Head(handle) = "@" THEN TwitterBase \o Tail(handle) ELSE TwitterBase \o handle

Link(label, url) == [label |-> label, url |-> url]

\* a contact list that has an entry for every field, filled in or not
ContactsOfEveryField(author) ==
    <<Link("Website", author.website), Link("LinkedIn", author.linkedin),
      Link("GitHub", author.github), Link("Twitter", TwitterBase \o author.twitter),
      Link("Email", MailTo \o author.email)>>

\* const contacts: one entry for each field that is filled in
Contacts(author) ==
    (IF author.website # <<>> THEN <<Link("Website", author.website)>> ELSE <<>>)
    \o (IF author.linkedin # <<>> THEN <<Link("LinkedIn", author.linkedin)>> ELSE <<>>)
    \o (IF author.github # <<>> THEN <<Link("GitHub", author.github)>> ELSE <<>>)
    \o (IF author.twitter # <<>> THEN <<Link("Twitter", TwitterUrl(author.twitter))>> ELSE <<>>)
    \o (IF author.email # <<>> THEN <<Link("Email", MailTo \o author.email)>> ELSE <<>>)

\* a section that ends every author with a rule
RuleAfterEveryAuthor(index, n) == TRUE

\* index < authors.length - 1, with indices counted from 1
RuleAfterAuthor(index, n) == index < n

Block(kind, text, links) == [kind |-> kind, text |-> text, links |-> links]

AboutTheAuthor  == <<"A", "b", "o", "u", "t", " ", "t", "h", "e", " ", "A", "u", "t", "h", "o", "r">>
AboutTheAuthors == <<"A", "b", "o", "u", "t", " ", "t", "h", "e", " ", "A", "u", "t", "h", "o", "r", "s">>
AddYourBiography == <<"A", "d", "d", " ", "y", "o", "u", "r", " ", "b", "i", "o", "g", "r", "a", "p", "h", "y", " ", "h", "e", "r", "e", ".">>

\* author.bio || `${author.name} is...`
BioOf(author) == IF author.bio # <<>> THEN author.bio ELSE author.name \o <<" ", "i", "s", ".", ".", ".">>

\* the body of authors.forEach for one author
AuthorSection(author, index, n) ==
    <<Block("h2", author.name, <<>>), Block("bio", BioOf(author), <<>>)>>
    \o (IF Len(Contacts(author)) > 0
        THEN <<Block("contact", <<>>, Contacts(author))>> ELSE <<>>)
    \o (IF RuleAfterAuthor(index, n) THEN <<Block("rule", <<>>, <<>>)>> ELSE <<>>)

RECURSIVE AuthorSections(_, _)
AuthorSections(authors, index) ==
    IF index > Len(authors) THEN <<>>
    ELSE AuthorSection(authors[index], index, Len(authors))
         \o AuthorSections(authors, index + 1)

generateAboutAuthors(meta) ==
    LET authors == getAuthorObjects(meta)
    IN  IF Len(authors) = 0
        THEN <<Block("h1", AboutTheAuthor, <<>>), Block("text", AddYourBiography, <<>>)>>
        ELSE IF Len(authors) = 1
        THEN <<Block("h1", AboutTheAuthor, <<>>), Block("bio", BioOf(authors[1]), <<>>),
               Block("text", AddYourBiography, <<>>)>>
        ELSE <<Block("h1", AboutTheAuthors, <<>>)>> \o AuthorSections(authors, 1)

\* author records: with every contact field, with none, with some; the twitter
\* handle with and without a leading @
AuthorProfiles ==
    {[name |-> Ada, bio |-> <<"t", "e", "x", "t">>, email |-> <<"e">>, twitter |-> <<"@", "a", "d", "a">>,
      website |-> <<"w">>, linkedin |-> <<"l">>, github |-> <<"g">>],
     [NoAuthorFields EXCEPT !.name = Lin],
     [NoAuthorFields EXCEPT !.name = Grace, !.website = <<"w">>],
     [NoAuthorFields EXCEPT !.name = Ada, !.twitter = <<"a", "d", "a">>],
     [NoAuthorFields EXCEPT !.name = Lin, !.linkedin = <<"l">>, !.github = <<"g">>],
     [NoAuthorFields EXCEPT !.name = Grace, !.email = <<"e">>, !.twitter = <<"@", "a", "d", "a">>]}

\* book.yaml with a list of up to MaxAuthors such records, or with the legacy
\* author string
AboutInputs ==
    {[MetaStructured EXCEPT !.authors = a] : a \in SeqsUpTo(AuthorProfiles, MaxAuthors)}
    \cup {[MetaLegacy EXCEPT !.author = a] : a \in LegacyAuthorPool}

AboutIdle ==
    /\ aboutSection = <<>>
    /\ aboutDone = FALSE

AboutInit ==
    /\ metadata \in AboutInputs
    /\ AboutIdle

\* createLeanpubFiles: generateAboutAuthors(metadata) for about-author.txt
WriteAboutAuthor ==
    /\ ~aboutDone
    /\ aboutSection' = generateAboutAuthors(metadata)
    /\ aboutDone' = TRUE
    /\ UNCHANGED outsideAbout

AboutNext == WriteAboutAuthor

-----------------------------------------------------------------------------
(* Properties of the About the Author(s) section *)

\* the author records the section is generated for, as book.yaml gives them
ExpectedAuthors ==
    IF HasAuthorsArray(metadata) THEN metadata.authors
    ELSE [i \in 1..Len(getAuthorArray(metadata)) |->
             [NoAuthorFields EXCEPT !.name = getAuthorArray(metadata)[i]]]

ContactFields == {"website", "linkedin", "github", "twitter", "email"}

LabelOf(field) ==
    CASE field = "website" -> "Website" [] field = "linkedin" -> "LinkedIn"
      [] field = "github" -> "GitHub" [] field = "twitter" -> "Twitter"
      [] OTHER -> "Email"

\* the positions of the blocks of one kind
PositionsOf(section, kind) == {p \in 1..Len(section) : section[p].kind = kind}

\* the position of the i-th subsection heading
SubsectionStart(section, i) ==
    CHOOSE p \in PositionsOf(section, "h2") :
        Cardinality({q \in PositionsOf(section, "h2") : q <= p}) = i

\* the blocks rendered for the i-th of n authors: the whole section for a
\* single author, else from the i-th subsection heading up to the next one
AuthorBlocks(section, i, n) ==
    IF n = 1 THEN section
    ELSE LET from == SubsectionStart(section, i)
             to   == IF i < n THEN SubsectionStart(section, i + 1) - 1 ELSE Len(section)
         IN  SubSeq(section, from, to)

\* the links with a label among some blocks
LinksLabelled(blocks, label) ==
    {<<p, k>> \in (1..Len(blocks)) \X (1..5) :
        k <= Len(blocks[p].links) /\ blocks[p].links[k].label = label}

\* a handle without its leading @
WithoutAt(handle) == IF handle # <<>> /\ Head(handle) = "@" THEN Tail(handle) ELSE handle

\* for the i-th of n authors every contact field that is filled in has exactly
\* one link, a field left out has none, and the twitter link is the profile
\* URL of the handle without an @
ContactLinksRendered(i, n) ==
    LET blocks == AuthorBlocks(aboutSection, i, n)
        author == ExpectedAuthors[i]
    IN  /\ \A f \in ContactFields :
               Cardinality(LinksLabelled(blocks, LabelOf(f)))
                   = (IF author[f] # <<>> THEN 1 ELSE 0)
        /\ \A pk \in LinksLabelled(blocks, "Twitter") :
               LET url == blocks[pk[1]].links[pk[2]].url
               IN  /\ url = TwitterBase \o WithoutAt(author.twitter)
                   /\ "@" \notin Range(url)

\* What holds of the contact links: in a section for two or more authors every
\* author has exactly one labeled link for each contact field that is filled in
\* and none for a field that is absent, a twitter handle written with a leading
\* @ giving the profile URL without it; the section for a single author (or for
\* none) has no contact link at all.
ContactLinksPerField ==
    aboutDone =>
        LET n == Len(ExpectedAuthors)
        IN  /\ n >= 2 => \A i \in 1..n : ContactLinksRendered(i, n)
            /\ n <= 1 => \A p \in 1..Len(aboutSection) : aboutSection[p].links = <<>>

\* a section for several authors, one with all five contact fields and an
\* @-handle, one with none
ContactLinksCase ==
    /\ aboutDone
    /\ Len(metadata.authors) >= 2
    /\ \E i, j \in 1..Len(metadata.authors) :
           /\ \A f \in ContactFields : metadata.authors[i][f] # <<>>
           /\ Head(metadata.authors[i].twitter) = "@"
           /\ \A f \in ContactFields : metadata.authors[j][f] = <<>>
    /\ \E p \in 1..Len(aboutSection) : Len(aboutSection[p].links) = 5

\* C19 (as claimed): in the generated section every author record has exactly
\* one labeled link for each contact field that is filled in and none for an
\* absent one, for single-author and multi-author books alike, and a twitter
\* handle with a leading @ gives the profile URL without the @.
C19_ContactLinksAlike ==
    aboutDone =>
        LET n == Len(ExpectedAuthors)
        IN  \A i \in 1..n : ContactLinksRendered(i, n)

\* C20: for n >= 2 authors the section has one subsection per author, in list
\* order, and n - 1 rules: one between each two consecutive subsections and
\* none after the last.
C20_SubsectionsAndRules ==
    (aboutDone /\ Len(ExpectedAuthors) >= 2) =>
        LET n     == Len(ExpectedAuthors)
            heads == SelectSeq(aboutSection, LAMBDA b : b.kind = "h2")
            rules == PositionsOf(aboutSection, "rule")
        IN  /\ Len(heads) = n
            /\ \A i \in 1..n : heads[i].text = ExpectedAuthors[i].name
            /\ Cardinality(rules) = n - 1
            /\ \A i \in 1..(n - 1) :
                   Cardinality({p \in rules :
                       /\ p > SubsectionStart(aboutSection, i)
                       /\ p < SubsectionStart(aboutSection, i + 1)}) = 1
            /\ \A p \in rules : p < Len(aboutSection) /\ aboutSection[p + 1].kind = "h2"

\* C20 witness: a section generated for three authors of different names.
C20_Witness ==
    /\ aboutDone
    /\ Len(metadata.authors) = 3
    /\ metadata.authors[1].name # metadata.authors[2].name
    /\ metadata.authors[2].name # metadata.authors[3].name
    /\ Cardinality(PositionsOf(aboutSection, "rule")) = 2

-----------------------------------------------------------------------------
(* Properties of the Leanpub manifest *)

\* the lines of manuscript/Book.txt
ManifestLines == SplitOn(bookTxt, {"\n"}, <<>>)

\* C21: after buildLeanpub, Book.txt lists dedication.txt first, then every
\* chapter file of src/chapters exactly once in ascending order, then
\* about-author.txt last; writing the chapter list and reading it back loses
\* and reorders nothing.
C21_ManifestOrder ==
    "leanpub" \in built =>
        LET lines    == ManifestLines
            chapters == SubSeq(lines, 2, Len(lines) - 1)
        IN  /\ Len(lines) >= 2
            /\ lines[1] = DedicationTxt
            /\ lines[Len(lines)] = AboutAuthorTxt
            /\ Range(chapters) = {f \in dirFiles : EndsWith(f, DotMd)}
            /\ Len(chapters) = Cardinality({f \in dirFiles : EndsWith(f, DotMd)})
            /\ \A i, j \in 1..Len(chapters) : i < j => StrLess(chapters[i], chapters[j])

\* C21 witness: the manifest of a directory enumerated out of order that holds
\* two chapters and a file that is no chapter.
C21_Witness ==
    /\ "leanpub" \in built
    /\ listing = <<F2, FTxt, F10>>
    /\ ManifestLines = <<DedicationTxt, F10, F2, AboutAuthorTxt>>

-----------------------------------------------------------------------------
(* validate.js *)

ShortLimit == 100

\* /^\d{2}-/.test(file)
ProperNaming(file) ==
    /\ Len(file) >= 3
    /\ file[1] \in Digits
    /\ file[2] \in Digits
    /\ file[3] = "-"

\* the chapters a project may hold: file name, lines, number of words, whether
\* it refers to an image that is missing, whether it can be read
ValChapterPool ==
    {[file |-> <<"0", "1", "-", "a", ".", "m", "d">>, content |-> <<<<"#", " ", "I", "n", "t", "r", "o">>>>, words |-> 100, brokenImage |-> FALSE, readable |-> TRUE],
     [file |-> F2, content |-> <<<<"#", "#", " ", "S", "e", "t", "u", "p", "!">>>>, words |-> 99, brokenImage |-> FALSE, readable |-> TRUE],
     [file |-> <<"0", "3", "-", "c", ".", "m", "d">>, content |-> <<<<"#", " ", "I", "n", "t", "r", "o">>>>, words |-> 99, brokenImage |-> FALSE, readable |-> TRUE],
     [file |-> <<"0", "4", "-", "d", ".", "m", "d">>, content |-> <<<<"#", " ", "I", "n", "t", "r", "o">>>>, words |-> 100, brokenImage |-> TRUE, readable |-> TRUE],
     [file |-> <<"0", "5", "-", "e", ".", "m", "d">>, content |-> <<<<"#", " ", "I", "n", "t", "r", "o">>>>, words |-> 100, brokenImage |-> FALSE, readable |-> FALSE]}

\* the chapter of a file name
ValChapter(chapters, file) == CHOOSE c \in chapters : c.file = file

\* the images src/images may hold
ValImagePool ==
    {<<>>, <<[file |-> <<"c", "o", "v", "e", "r", ".", "j", "p", "g">>, large |-> FALSE]>>, <<[file |-> <<"f", "i", "g", ".", "p", "n", "g">>, large |-> TRUE]>>}

RequiredDirs == <<"src", "src/chapters", "src/metadata", "src/images">>

\* the projects validate is run on
ValEnvironments ==
    [dirs     : {{"src", "src/chapters", "src/metadata", "src/images"},
                 {"src", "src/metadata", "src/images"},
                 {"src", "src/chapters", "src/metadata"}},
     metaFile : {"absent", "invalid", "present"},
     title    : BOOLEAN,
     subtitle : BOOLEAN,
     cover    : {"none", "found", "missing"},
     chapters : {S \in SUBSET ValChapterPool : Cardinality(S) <= MaxValChapters},
     images   : ValImagePool]

\* book.yaml that is absent or unparseable has no fields; no chapters and no
\* images without their directory
ValConsistent(env) ==
    /\ env.metaFile # "present" => (env.title /\ env.subtitle /\ env.cover = "none")
    /\ "src/chapters" \notin env.dirs => env.chapters = {}
    /\ "src/images" \notin env.dirs => env.images = <<>>

ValidateIdle ==
    /\ valEnv = <<>>
    /\ valPc = "idle"
    /\ valErrors = <<>>
    /\ valWarnings = <<>>
    /\ valScans = {}
    /\ valReport = <<>>
    /\ valExit = 0

ValidateInit ==
    /\ valEnv \in {env \in ValEnvironments : ValConsistent(env)}
    /\ valPc = "start"
    /\ valErrors = <<>>
    /\ valWarnings = <<>>
    /\ valScans = {}
    /\ valReport = <<>>
    /\ valExit = 0

\* the messages one loop pushes: a message for every item that has the fault
MessagesFor(kind, hits) == [i \in 1..Len(hits) |-> <<kind, hits[i]>>]

\* validateMetadata: the errors and the warnings it pushes
MetadataErrors(env) ==
    IF env.metaFile = "invalid" THEN <<<<"Invalid YAML in metadata file", "book.yaml">>>>
    ELSE (IF ~env.title THEN <<<<"Missing required metadata field", "title">>>> ELSE <<>>)
         \o (IF env.cover = "missing" THEN <<<<"Cover image not found", "cover">>>> ELSE <<>>)

MetadataWarnings(env) ==
    IF env.metaFile = "invalid" THEN <<>>
    ELSE (IF ~env.subtitle THEN <<<<"Missing recommended metadata field", "subtitle">>>> ELSE <<>>)
         \o <<<<"Missing recommended metadata field", "language">>,
              <<"Missing recommended metadata field", "version">>>>
         \o (IF env.cover = "none" THEN <<<<"No cover image specified in metadata", "cover">>>> ELSE <<>>)

\* the required directories and the metadata file (lines 14-34)
CheckStructure ==
    /\ valPc = "start"
    /\ LET missingDir(dir) == dir \notin valEnv.dirs
           dirErrors == MessagesFor("Missing required directory", SelectSeq(RequiredDirs, missingDir))
       IN  IF valEnv.metaFile = "absent"
           THEN /\ valErrors' = dirErrors \o <<<<"Missing book metadata file", "book.yaml">>>>
                /\ UNCHANGED <<valWarnings, valScans>>
           ELSE /\ valErrors' = dirErrors \o MetadataErrors(valEnv)
                /\ valWarnings' = MetadataWarnings(valEnv)
                /\ valScans' = valScans \cup {"metadata"}
    /\ valPc' = "chapters"
    /\ UNCHANGED <<valEnv, valReport, valExit>>
    /\ UNCHANGED outsideValidate

\* the chapter loop of validateChapters on the files read so far
RECURSIVE ChapterWarnings(_, _)
ChapterWarnings(chapters, files) ==
    IF files = <<>> THEN <<>>
    ELSE LET c == ValChapter(chapters, Head(files))
         IN  (IF ~HasTitleMatch(c.content)
              THEN <<<<"Chapter missing main title", c.file>>>> ELSE <<>>)
             \o (IF c.words < ShortLimit
                 THEN <<<<"Chapter is very short", c.file>>>> ELSE <<>>)
             \o ChapterWarnings(chapters, Tail(files))

\* validateChapters (line 37); an unreadable chapter makes fs.readFile throw,
\* which ends validate in its catch block
ValidateChaptersStep ==
    /\ valPc = "chapters"
    /\ LET names         == {c.file : c \in valEnv.chapters}
           markdownFiles == SortFiles(CHOOSE s \in Perms(names) : TRUE)
           unreadable(f) == ~ValChapter(valEnv.chapters, f).readable
           broken(f)     == ValChapter(valEnv.chapters, f).brokenImage
           improper(f)   == ~ProperNaming(f)
       IN  IF "src/chapters" \notin valEnv.dirs
           THEN /\ valPc' = "images"
                /\ valScans' = valScans \cup {"chapters"}
                /\ UNCHANGED <<valErrors, valWarnings, valExit>>
           ELSE IF markdownFiles = <<>>
           THEN /\ valErrors' = Append(valErrors, <<"No chapter files found", "src/chapters">>)
                /\ valPc' = "images"
                /\ valScans' = valScans \cup {"chapters"}
                /\ UNCHANGED <<valWarnings, valExit>>
           ELSE IF \E i \in 1..Len(markdownFiles) : unreadable(markdownFiles[i])
           THEN LET first == CHOOSE i \in 1..Len(markdownFiles) :
                                 /\ unreadable(markdownFiles[i])
                                 /\ \A j \in 1..(i - 1) : ~unreadable(markdownFiles[j])
                    filesRead == SubSeq(markdownFiles, 1, first - 1)
                IN  /\ valErrors' = valErrors \o MessagesFor("Broken image reference", SelectSeq(filesRead, broken))
                    /\ valWarnings' = valWarnings
                           \o (IF \E i \in 1..Len(markdownFiles) : improper(markdownFiles[i])
                               THEN <<<<"Chapter files should follow naming convention", "src/chapters">>>>
                               ELSE <<>>)
                           \o ChapterWarnings(valEnv.chapters, filesRead)
                    /\ valPc' = "exited"
                    /\ valExit' = 1
                    /\ UNCHANGED valScans
           ELSE /\ valErrors' = valErrors \o MessagesFor("Broken image reference", SelectSeq(markdownFiles, broken))
                /\ valWarnings' = valWarnings
                       \o (IF \E i \in 1..Len(markdownFiles) : improper(markdownFiles[i])
                           THEN <<<<"Chapter files should follow naming convention", "src/chapters">>>>
                           ELSE <<>>)
                       \o ChapterWarnings(valEnv.chapters, markdownFiles)
                /\ valPc' = "images"
                /\ valScans' = valScans \cup {"chapters"}
                /\ UNCHANGED valExit
    /\ UNCHANGED <<valEnv, valReport>>
    /\ UNCHANGED outsideValidate

\* validateImages (line 40)
ValidateImagesStep ==
    /\ valPc = "images"
    /\ LET imageFiles == valEnv.images
           hasCover   == \E i \in 1..Len(imageFiles) : Includes(LowerText(imageFiles[i].file), <<"c", "o", "v", "e", "r">>)
           large(img) == img.large
       IN  IF "src/images" \notin valEnv.dirs THEN UNCHANGED valWarnings
           ELSE valWarnings' = valWarnings
                    \o (IF imageFiles = <<>> THEN <<<<"No image files found", "src/images">>>>
                        ELSE IF ~hasCover THEN <<<<"No cover image found", "src/images">>>>
                        ELSE <<>>)
                    \o [i \in 1..Len(SelectSeq(imageFiles, large)) |->
                           <<"Large image file", SelectSeq(imageFiles, large)[i].file>>]
    /\ valScans' = valScans \cup {"images"}
    /\ valPc' = "report"
    /\ UNCHANGED <<valEnv, valErrors, valReport, valExit>>
    /\ UNCHANGED outsideValidate

\* an exit code that does not look at the errors
ExitCodeIgnoringErrors(errors) == 0

\* if (errors.length > 0) process.exit(1)
ExitCode(errors) == IF Len(errors) > 0 THEN 1 ELSE 0

\* the report and the exit (lines 42-63)
Report ==
    /\ valPc = "report"
    /\ valReport' = <<[errors |-> valErrors, warnings |-> valWarnings]>>
    /\ valExit' = ExitCode(valErrors)
    /\ valPc' = "exited"
    /\ UNCHANGED <<valEnv, valErrors, valWarnings, valScans>>
    /\ UNCHANGED outsideValidate

ValidateNext ==
    \/ CheckStructure
    \/ ValidateChaptersStep
    \/ ValidateImagesStep
    \/ Report

\* fs.readFile throws on one of the chapters
ThrowingInput(env) == \E c \in env.chapters : ~c.readable

\* the content warnings of the chapters: a short chapter, a chapter without a
\* title, file names outside the naming convention
ContentWarnings(env) ==
    {<<"Chapter is very short", c.file>> : c \in {d \in env.chapters : d.words < ShortLimit}}
    \cup {<<"Chapter missing main title", c.file>> :
              c \in {d \in env.chapters : ~HasTitleMatch(d.content)}}
    \cup (IF \E c \in env.chapters : ~ProperNaming(c.file)
          THEN {<<"Chapter files should follow naming convention", "src/chapters">>}
          ELSE {})

\* all scans have returned, everything collected is in the one report printed
\* after them, and the exit code is 1 exactly if an error was collected
ScannedAndReported ==
    /\ {"chapters", "images"} \subseteq valScans
    /\ valEnv.metaFile # "absent" => "metadata" \in valScans
    /\ valReport = <<[errors |-> valErrors, warnings |-> valWarnings]>>
    /\ ContentWarnings(valEnv) \subseteq Range(valWarnings)
    /\ (valExit = 1 <=> valErrors # <<>>)

-----------------------------------------------------------------------------
(* enhanced-features.js: a burst of scroll and resize events *)

BurstPositions == {0, 400, 600}

\* below, at and above the mobile breakpoint
Widths == {600, 768, 1024}

ThrottleIdle ==
    /\ winScrollY = 0
    /\ innerWidth = 1024
    /\ burstEvents = 0
    /\ burstOver = FALSE
    /\ tocPositionTimeout = FALSE
    /\ activeTimeout = FALSE
    /\ positionRuns = 0
    /\ activeRuns = 0
    /\ syncRuns = 0
    /\ positionY = 0
    /\ activeY = 0

\* the page after initTableOfContents and its initial timers, scrolled somewhere
ThrottleInit ==
    /\ winScrollY \in BurstPositions
    /\ innerWidth \in Widths
    /\ burstEvents = 0
    /\ burstOver = FALSE
    /\ tocPositionTimeout = FALSE
    /\ activeTimeout = FALSE
    /\ positionRuns = 0
    /\ activeRuns = 0
    /\ syncRuns = 0
    /\ positionY = winScrollY
    /\ activeY = winScrollY

\* a scroll event: throttledAdjustPosition and the scroll listener of
\* updateActiveTocItem each clear their timer and arm it again
ScrollEvent ==
    /\ ~burstOver
    /\ burstEvents < MaxBurst
    /\ \E y \in BurstPositions \ {winScrollY} : winScrollY' = y
    /\ burstEvents' = burstEvents + 1
    /\ tocPositionTimeout' = TRUE
    /\ activeTimeout' = TRUE
    /\ UNCHANGED <<innerWidth, burstOver, positionRuns, activeRuns, syncRuns, positionY,
                   activeY>>
    /\ UNCHANGED outsideThrottle

\* a resize event: the listeners are adjustTocPosition and updateActiveTocItem
\* themselves
ResizeEvent ==
    /\ ~burstOver
    /\ burstEvents < MaxBurst
    /\ \E w \in Widths \ {innerWidth} : innerWidth' = w
    /\ burstEvents' = burstEvents + 1
    /\ positionRuns' = positionRuns + 1
    /\ activeRuns' = activeRuns + 1
    /\ syncRuns' = syncRuns + 1
    /\ positionY' = winScrollY
    /\ activeY' = winScrollY
    /\ UNCHANGED <<winScrollY, burstOver, tocPositionTimeout, activeTimeout>>
    /\ UNCHANGED outsideThrottle

\* the timer of throttledAdjustPosition fires: adjustTocPosition
PositionTimerFire ==
    /\ tocPositionTimeout
    /\ tocPositionTimeout' = FALSE
    /\ burstOver' = TRUE
    /\ positionRuns' = positionRuns + 1
    /\ positionY' = winScrollY
    /\ UNCHANGED <<winScrollY, innerWidth, burstEvents, activeTimeout, activeRuns, syncRuns,
                   activeY>>
    /\ UNCHANGED outsideThrottle

\* the timer of the scroll listener fires: updateActiveTocItem
ActiveTimerFire ==
    /\ activeTimeout
    /\ activeTimeout' = FALSE
    /\ burstOver' = TRUE
    /\ activeRuns' = activeRuns + 1
    /\ activeY' = winScrollY
    /\ UNCHANGED <<winScrollY, innerWidth, burstEvents, tocPositionTimeout, positionRuns,
                   syncRuns, positionY>>
    /\ UNCHANGED outsideThrottle

ThrottleNext ==
    \/ ScrollEvent
    \/ ResizeEvent
    \/ PositionTimerFire
    \/ ActiveTimerFire

\* C23 (as claimed): no scroll or resize event runs a recomputation itself,
\* each only arms a timer; once the timers of a burst of events have fired,
\* each recomputation has run exactly once, with the final scroll position.
C23_EventsOnlyArmTimers ==
    /\ syncRuns = 0
    /\ (burstEvents > 0 /\ ~tocPositionTimeout /\ ~activeTimeout) =>
           /\ positionRuns = 1
           /\ activeRuns = 1
           /\ positionY = winScrollY
           /\ activeY = winScrollY

-----------------------------------------------------------------------------
(* enhanced-features.js: the TOC panel, collapse button and mobile overlay *)

MobileBreakpoint == 768

\* a sidebar as initTableOfContents creates it
NewPanel == [mobileActive |-> FALSE, collapsed |-> FALSE]

PanelIdle ==
    /\ panels = <<>>
    /\ tocMobileOpen = FALSE
    /\ viewportWidth = 1024
    /\ lastEvent = "none"
    /\ before = <<>>
    /\ handlerRuns = 0

\* a chapter page after DOMContentLoaded: one panel, not collapsed, overlay closed
PanelInit ==
    /\ panels = <<NewPanel>>
    /\ tocMobileOpen = FALSE
    /\ viewportWidth \in Widths
    /\ lastEvent = "none"
    /\ before = <<>>
    /\ handlerRuns = 0

\* what an event finds: the panels, the body class and the width
Snapshot == <<[panels |-> panels, open |-> tocMobileOpen, width |-> viewportWidth]>>

\* an outside click that closes nothing
IgnoresOutsideClick(width, active) == FALSE

\* window.innerWidth <= 768 && tocSidebar.classList.contains('mobile-active')
ClosesOnOutsideClick(width, active) == width <= MobileBreakpoint /\ active

\* the 'click' listeners on document of the panels from i on, for a click whose
\* target is inside panel k (k = 0: outside every panel); st = [panels, open]
RECURSIVE DocumentClick(_, _, _)
DocumentClick(st, i, k) ==
    IF i > Len(st.panels) THEN st
    ELSE IF i # k /\ ClosesOnOutsideClick(viewportWidth, st.panels[i].mobileActive)
    THEN DocumentClick([panels |-> [st.panels EXCEPT ![i].mobileActive = FALSE],
                        open   |-> FALSE], i + 1, k)
    ELSE DocumentClick(st, i + 1, k)

\* the event has been handled by the listener on its target, then it bubbles
\* to document
Dispatched(event, st, k) ==
    LET after == DocumentClick(st, 1, k)
    IN  /\ panels' = after.panels
        /\ tocMobileOpen' = after.open
        /\ lastEvent' = event
        /\ before' = Snapshot
        /\ handlerRuns' = Len(panels)
        /\ UNCHANGED viewportWidth
        /\ UNCHANGED outsidePanel

\* a click on .toc-collapse of panel k
ClickCollapse ==
    \E k \in 1..Len(panels) :
        Dispatched("collapse",
                   [panels |-> [panels EXCEPT ![k].collapsed = ~panels[k].collapsed],
                    open   |-> tocMobileOpen], k)

\* a click on the .toc-toggle button of panel k
ClickToggle ==
    \E k \in 1..Len(panels) :
        Dispatched("toggle",
                   [panels |-> [panels EXCEPT ![k].mobileActive = ~panels[k].mobileActive],
                    open   |-> ~tocMobileOpen], k)

\* a click on .mobile-toc-close of panel k
ClickMobileClose ==
    \E k \in 1..Len(panels) :
        Dispatched("close",
                   [panels |-> [panels EXCEPT ![k].mobileActive = FALSE],
                    open   |-> FALSE], k)

\* a click on a .toc-link of panel k
ClickPanelLink ==
    \E k \in 1..Len(panels) :
        Dispatched("link",
                   IF viewportWidth <= MobileBreakpoint
                   THEN [panels |-> [panels EXCEPT ![k].mobileActive = FALSE], open |-> FALSE]
                   ELSE [panels |-> panels, open |-> tocMobileOpen], k)

\* a click outside every sidebar and toggle button
ClickOutside ==
    /\ Len(panels) > 0
    /\ Dispatched("outside", [panels |-> panels, open |-> tocMobileOpen], 0)

\* keydown with e.key === 'Escape': the listener of every initialization
KeydownEscape ==
    /\ panels' = [i \in 1..Len(panels) |-> [panels[i] EXCEPT !.mobileActive = FALSE]]
    /\ tocMobileOpen' = FALSE
    /\ lastEvent' = "escape"
    /\ before' = Snapshot
    /\ handlerRuns' = Len(panels)
    /\ UNCHANGED viewportWidth
    /\ UNCHANGED outsidePanel

\* keydown with another key: the listener does nothing
KeydownOther ==
    /\ lastEvent' = "key"
    /\ before' = Snapshot
    /\ handlerRuns' = Len(panels)
    /\ UNCHANGED <<panels, tocMobileOpen, viewportWidth>>
    /\ UNCHANGED outsidePanel

\* the window gets another width (a rotated phone, a dragged window): the
\* resize listeners leave the panel classes alone
ResizeWidth ==
    /\ \E w \in Widths \ {viewportWidth} : viewportWidth' = w
    /\ lastEvent' = "resize"
    /\ before' = Snapshot
    /\ handlerRuns' = Len(panels)
    /\ UNCHANGED <<panels, tocMobileOpen>>
    /\ UNCHANGED outsidePanel

PanelNext ==
    \/ ClickCollapse
    \/ ClickToggle
    \/ ClickMobileClose
    \/ ClickPanelLink
    \/ ClickOutside
    \/ KeydownEscape
    \/ KeydownOther
    \/ ResizeWidth

\* the overlay of the page's panel is closed
OverlayClosed == ~panels[1].mobileActive /\ ~tocMobileOpen

\* the last event left the collapse state / the overlay state as it found it
CollapseKept == panels[1].collapsed = before[1].panels[1].collapsed

OverlayKept ==
    /\ panels[1].mobileActive = before[1].panels[1].mobileActive
    /\ tocMobileOpen = before[1].open

\* C24 (amended): with the mobile overlay open, the close button and the Escape
\* key always lead to the closed state (sidebar without mobile-active, body
\* without toc-mobile-open), a click outside the panel does so while the window
\* is at most 768 wide and changes nothing on a wider window; none of the three
\* changes the collapse state, and the collapse button never changes the overlay.
C24_CloseActionsConverge ==
    lastEvent # "none" =>
        /\ lastEvent \in {"close", "escape"} => (OverlayClosed /\ CollapseKept)
        /\ (lastEvent = "outside" /\ viewportWidth <= MobileBreakpoint)
               => (OverlayClosed /\ CollapseKept)
        /\ (lastEvent = "outside" /\ viewportWidth > MobileBreakpoint)
               => (OverlayKept /\ CollapseKept)
        /\ lastEvent = "collapse" => (OverlayKept /\ ~CollapseKept)

\* C24 witness: a click outside the panel found the overlay open on a collapsed
\* panel and closed it.
C24_Witness ==
    /\ lastEvent = "outside"
    /\ before[1].panels[1].mobileActive
    /\ before[1].open
    /\ before[1].panels[1].collapsed
    /\ OverlayClosed
    /\ panels[1].collapsed

\* C24 (as claimed): from every state with the overlay open, the click outside
\* the panel, the close button and the Escape key all lead to the closed state
\* and leave the collapse state alone; the collapse button leaves the overlay
\* alone.
C24_AllCloseActionsClose ==
    lastEvent # "none" =>
        /\ (lastEvent \in {"close", "escape", "outside"} /\ before[1].panels[1].mobileActive)
               => (OverlayClosed /\ CollapseKept)
        /\ lastEvent = "collapse" => OverlayKept

-----------------------------------------------------------------------------
(* enhanced-features.js: the navigator initialized again on the same page *)

\* initializeFeatures / initTableOfContents called again: another sidebar and
\* toggle button are appended to body and every listener is added once more
InitTableOfContentsAgain ==
    /\ Len(panels) < MaxInits
    /\ panels' = Append(panels, NewPanel)
    /\ lastEvent' = "init"
    /\ before' = Snapshot
    /\ handlerRuns' = 0
    /\ UNCHANGED <<tocMobileOpen, viewportWidth>>
    /\ UNCHANGED outsidePanel

ReinitNext ==
    \/ InitTableOfContentsAgain
    \/ ClickCollapse
    \/ ClickToggle
    \/ ClickMobileClose
    \/ ClickPanelLink
    \/ ClickOutside
    \/ KeydownEscape
    \/ KeydownOther
    \/ ResizeWidth

\* C25 (as claimed): however often the navigator is initialized on a page, the
\* page holds exactly one injected TOC panel with its toggle button, and an
\* event runs each navigator handler exactly once.
C25_OnePanelOneListener ==
    /\ Len(panels) = 1
    /\ handlerRuns <= 1

-----------------------------------------------------------------------------
(* dev-server.js *)

DevIdle ==
    /\ devAlive = FALSE
    /\ devExit = 0
    /\ listening = FALSE
    /\ buildTimeout = FALSE
    /\ runningBuilds = <<>>
    /\ sourceBroken = FALSE
    /\ changes = 0
    /\ failedRebuilds = 0
    /\ devLog = {}

\* the module has been loaded: the watcher is set up and the initial build runs
DevInit ==
    /\ devAlive = TRUE
    /\ devExit = 0
    /\ listening = FALSE
    /\ buildTimeout = FALSE
    /\ runningBuilds = <<"initial">>
    /\ sourceBroken \in BOOLEAN
    /\ changes = 0
    /\ failedRebuilds = 0
    /\ devLog = {}

\* watcher.on('change'): clearTimeout(buildTimeout); buildTimeout = setTimeout(..., 500);
\* the edit may break the sources or repair them
FileChange ==
    /\ devAlive
    /\ changes < MaxChanges
    /\ changes' = changes + 1
    /\ sourceBroken' \in BOOLEAN
    /\ buildTimeout' = TRUE
    /\ devLog' = devLog \cup {"File changed"}
    /\ UNCHANGED <<devAlive, devExit, listening, runningBuilds, failedRebuilds>>
    /\ UNCHANGED outsideDev

\* the debounce timer fires: the callback prints 'Rebuilding...' and calls buildWeb
DebounceFire ==
    /\ devAlive
    /\ buildTimeout
    /\ buildTimeout' = FALSE
    /\ runningBuilds' = Append(runningBuilds, "rebuild")
    /\ devLog' = devLog \cup {"Rebuilding..."}
    /\ UNCHANGED <<devAlive, devExit, listening, sourceBroken, changes, failedRebuilds>>
    /\ UNCHANGED outsideDev

\* the sequence without its i-th element
RemoveAt(s, i) == SubSeq(s, 1, i - 1) \o SubSeq(s, i + 1, Len(s))

\* a call of buildWeb comes to its end.  On an error its own catch block prints
\* 'Error building web format' and calls process.exit(1); else the promise
\* resolves: app.listen after the initial build, 'Rebuild complete!' after a
\* rebuild
BuildWebEnds ==
    /\ devAlive
    /\ \E i \in 1..Len(runningBuilds) :
           IF sourceBroken
           THEN /\ devAlive' = FALSE
                /\ devExit' = 1
                /\ runningBuilds' = <<>>
                /\ buildTimeout' = FALSE
                /\ failedRebuilds' = failedRebuilds + (IF runningBuilds[i] = "rebuild" THEN 1 ELSE 0)
                /\ devLog' = devLog \cup {"Error building web format"}
                /\ UNCHANGED listening
           ELSE /\ runningBuilds' = RemoveAt(runningBuilds, i)
                /\ listening' = (listening \/ runningBuilds[i] = "initial")
                /\ devLog' = devLog \cup (IF runningBuilds[i] = "rebuild"
                                         THEN {"Rebuild complete!"}
                                         ELSE {"Development server running"})
                /\ UNCHANGED <<devAlive, devExit, buildTimeout, failedRebuilds>>
    /\ UNCHANGED <<sourceBroken, changes>>
    /\ UNCHANGED outsideDev

\* SIGINT: watcher.close(); process.exit(0)
Sigint ==
    /\ devAlive
    /\ devAlive' = FALSE
    /\ devExit' = 0
    /\ runningBuilds' = <<>>
    /\ buildTimeout' = FALSE
    /\ devLog' = devLog \cup {"Shutting down development server..."}
    /\ UNCHANGED <<listening, sourceBroken, changes, failedRebuilds>>
    /\ UNCHANGED outsideDev

DevNext ==
    \/ FileChange
    \/ DebounceFire
    \/ BuildWebEnds
    \/ Sigint

\* C26 (as claimed): at most one run of buildWeb is in progress at any time.
C26_OneBuildAtATime == Len(runningBuilds) <= 1

\* C27 (as claimed): when a rebuild has failed, 'Rebuild failed' has been
\* printed and the server is still running and watching, so that a later file
\* change can start another rebuild.
C27_FailedRebuildKeepsServer ==
    failedRebuilds > 0 => ("Rebuild failed" \in devLog /\ devAlive)

-----------------------------------------------------------------------------
(* build-kindle.js: the EPUB and MOBI conversions *)

\* exit codes of pandoc: success, an error (for example a missing
\* src/images/cover.jpg), a failed conversion, command not found
PandocExits == {0, 1, 43, 127}
ConverterExits == {0, 1}

ConvertIdle ==
    /\ convPc = "idle"
    /\ pandocExit = 0
    /\ calibreInstalled = FALSE
    /\ mobiExit = 0
    /\ epubGenerated = FALSE
    /\ epubOnDisk = FALSE
    /\ mobiAttempted = FALSE
    /\ convLog = {}

\* build/kindle/book.md and metadata.yaml have been written
ConvertInit ==
    /\ convPc = "epub"
    /\ pandocExit \in PandocExits
    /\ calibreInstalled \in BOOLEAN
    /\ mobiExit \in ConverterExits
    /\ epubGenerated = FALSE
    /\ epubOnDisk \in BOOLEAN
    /\ mobiAttempted = FALSE
    /\ convLog = {}

\* execSync throws when the command ends with a non-zero exit code
ExecSyncThrows(exit) == exit # 0

\* try { execSync(epubCommand) ... } catch { 'completed with warnings' }
GenerateEpub ==
    /\ convPc = "epub"
    /\ epubGenerated' = ~ExecSyncThrows(pandocExit)
    /\ epubOnDisk' = (epubOnDisk \/ ~ExecSyncThrows(pandocExit))
    /\ convLog' = convLog \cup (IF ExecSyncThrows(pandocExit)
                               THEN {"EPUB generation completed with warnings (this is normal)"}
                               ELSE {"EPUB generated successfully!"})
    /\ convPc' = "calibre"
    /\ UNCHANGED <<pandocExit, calibreInstalled, mobiExit, mobiAttempted>>
    /\ UNCHANGED outsideConvert

\* execSync('ebook-convert --version'): the catch block takes every failure
\* for a missing Calibre
CheckCalibre ==
    /\ convPc = "calibre"
    /\ IF calibreInstalled
       THEN /\ convLog' = convLog \cup {"Generating MOBI..."}
            /\ convPc' = "mobi"
       ELSE /\ convLog' = convLog \cup {"Calibre not found. MOBI generation skipped."}
            /\ convPc' = "report"
    /\ UNCHANGED <<pandocExit, calibreInstalled, mobiExit, epubGenerated, epubOnDisk, mobiAttempted>>
    /\ UNCHANGED outsideConvert

\* execSync(mobiCommand) on build/kindle/book.epub: ebook-convert fails on a
\* missing input file, and the same catch block takes that failure too
GenerateMobi ==
    /\ convPc = "mobi"
    /\ mobiAttempted' = TRUE
    /\ convLog' = convLog \cup (IF ExecSyncThrows(mobiExit) \/ ~epubOnDisk
                               THEN {"Calibre not found. MOBI generation skipped."}
                               ELSE {"MOBI generated successfully!"})
    /\ convPc' = "report"
    /\ UNCHANGED <<pandocExit, calibreInstalled, mobiExit, epubGenerated, epubOnDisk>>
    /\ UNCHANGED outsideConvert

\* console.log('Kindle format built successfully!'), after both try blocks
ReportKindle ==
    /\ convPc = "report"
    /\ convLog' = convLog \cup {"Kindle format built successfully!"}
    /\ convPc' = "done"
    /\ UNCHANGED <<pandocExit, calibreInstalled, mobiExit, epubGenerated, epubOnDisk, mobiAttempted>>
    /\ UNCHANGED outsideConvert

ConvertNext ==
    \/ GenerateEpub
    \/ CheckCalibre
    \/ GenerateMobi
    \/ ReportKindle

\* C28 (as claimed): 'Kindle format built successfully' is printed only when
\* the EPUB conversion succeeded, and the MOBI conversion is attempted only
\* when an EPUB was produced.
C28_SuccessOnlyWithEpub ==
    /\ "Kindle format built successfully!" \in convLog => epubGenerated
    /\ mobiAttempted => epubGenerated

-----------------------------------------------------------------------------
(* enhanced-features.js: initializeFeatures on a loaded page *)

\* the calls of initializeFeatures, in their order
Initializers ==
    <<"initThemeToggle", "initReadingProgress", "initSmoothScrolling",
      "initTableOfContents", "initKeyboardNavigation", "initNavigationDropdowns",
      "initEnhancedKeyboardNavigation", "initChapterGrouping",
      "enhanceChapterNavigation", "initCopyButtons">>

\* the pages the layout can give: with or without .reading-progress, with or
\* without .chapter-content and its headings, with or without #chapters-grid
\* (the default layout has none), with some pre elements
Pages ==
    {p \in [progress : BOOLEAN, content : BOOLEAN, headings : 0..MaxNavHeadings - 1,
            grid : BOOLEAN, pres : 0..MaxPres] :
        ~p.content => p.headings = 0}

FeaturesIdle ==
    /\ page = [progress |-> FALSE, content |-> FALSE, headings |-> 0, grid |-> FALSE, pres |-> 0]
    /\ featPc = "idle"
    /\ ranInitializers = <<>>
    /\ uncaughtError = FALSE
    /\ copyButtons = 0

FeaturesInit ==
    /\ page \in Pages
    /\ featPc = "loaded"
    /\ ranInitializers = <<>>
    /\ uncaughtError = FALSE
    /\ copyButtons = 0

\* whether the initializer throws on the page: initChapterGrouping calls
\* chaptersGrid.querySelectorAll on the result of getElementById('chapters-grid')
\* without a check; initReadingProgress and initTableOfContents return early on a
\* missing element, the others only register listeners or walk a NodeList
Throws(name, p) == name = "initChapterGrouping" /\ ~p.grid

\* the index of the first initializer that throws, Len + 1 when none does
RECURSIVE FirstThrowing(_, _)
FirstThrowing(p, i) ==
    IF i > Len(Initializers) \/ Throws(Initializers[i], p) THEN i
    ELSE FirstThrowing(p, i + 1)

\* document.addEventListener('DOMContentLoaded', () => initializeFeatures()):
\* the calls run in sequence and an exception ends the handler
initializeFeatures ==
    /\ featPc = "loaded"
    /\ LET k == FirstThrowing(page, 1)
           ran == SubSeq(Initializers, 1, k - 1)
       IN  /\ ranInitializers' = ran
           /\ uncaughtError' = (k <= Len(Initializers))
           /\ copyButtons' = IF \E i \in 1..Len(ran) : ran[i] = "initCopyButtons"
                             THEN page.pres ELSE 0
    /\ featPc' = "done"
    /\ UNCHANGED page
    /\ UNCHANGED outsideFeatures

FeaturesNext ==
    \/ initializeFeatures

\* C29 (as claimed): on every page, with or without the optional elements,
\* every initializer runs: chapter navigation enhancement and copy buttons
\* included, and every pre element gets its copy button.
C29_EveryInitializerRuns ==
    featPc = "done" =>
        /\ ranInitializers = Initializers
        /\ copyButtons = page.pres

-----------------------------------------------------------------------------
(* Frame of the chapter grouping *)

\* the entries of a container in document order: the items of each node, the
\* nodes in their order
RECURSIVE DocumentOrder(_, _)
DocumentOrder(grid, k) ==
    IF k > Len(grid) THEN <<>>
    ELSE grid[k].items \o DocumentOrder(grid, k + 1)

OriginalOrder == [i \in 1..Len(chapterItems) |-> i]

\* no entry is lost and none is duplicated
EntriesKept ==
    groupingRan =>
        LET order == DocumentOrder(chaptersGrid, 1)
        IN  /\ Len(order) = Len(chapterItems)
            /\ \A i \in 1..Len(chapterItems) : \E k \in 1..Len(order) : order[k] = i

\* C30 (as claimed): after the grouping the entries in document order are the
\* original entries in their original order, for every list of chapter titles.
C30_EntriesKeptInOrder ==
    groupingRan => DocumentOrder(chaptersGrid, 1) = OriginalOrder

-----------------------------------------------------------------------------
(* Specifications *)

\* no chapter directory is involved
NoCorpus ==
    /\ dirFiles = {}
    /\ listing = <<>>

\* no build runs and the metadata is the structured record
CorpusIdle ==
    /\ NoCorpus
    /\ metadata = MetaStructured
    /\ OutputsEmpty

InitCorpus == CorpusInit /\ AuthorsIdle /\ NavIdle /\ GroupIdle /\ PdfIdle /\ AnchorIdle /\ AboutIdle /\ ValidateIdle /\ ThrottleIdle /\ PanelIdle /\ DevIdle /\ ConvertIdle /\ FeaturesIdle

SpecCorpus == InitCorpus /\ [][CorpusNext]_vars

InitAuthors == AuthorsInit /\ NoCorpus /\ OutputsEmpty /\ NavIdle /\ GroupIdle /\ PdfIdle /\ AnchorIdle /\ AboutIdle /\ ValidateIdle /\ ThrottleIdle /\ PanelIdle /\ DevIdle /\ ConvertIdle /\ FeaturesIdle

SpecAuthors == InitAuthors /\ [][AuthorsNext]_vars

InitToc == TocInit /\ CorpusIdle /\ AuthorsIdle /\ GroupIdle /\ PdfIdle /\ AnchorIdle /\ AboutIdle /\ ValidateIdle /\ ThrottleIdle /\ PanelIdle /\ DevIdle /\ ConvertIdle /\ FeaturesIdle

SpecToc == InitToc /\ [][TocNext]_vars

InitNav == NavInit /\ CorpusIdle /\ AuthorsIdle /\ GroupIdle /\ PdfIdle /\ AnchorIdle /\ AboutIdle /\ ValidateIdle /\ ThrottleIdle /\ PanelIdle /\ DevIdle /\ ConvertIdle /\ FeaturesIdle

SpecNav == InitNav /\ [][NavNext]_vars

InitGroup == GroupInit /\ CorpusIdle /\ AuthorsIdle /\ NavIdle /\ PdfIdle /\ AnchorIdle /\ AboutIdle /\ ValidateIdle /\ ThrottleIdle /\ PanelIdle /\ DevIdle /\ ConvertIdle /\ FeaturesIdle

SpecGroup == InitGroup /\ [][GroupNext]_vars

InitPdf == PdfInit /\ PdfCorpus /\ AuthorsIdle /\ NavIdle /\ GroupIdle /\ AnchorIdle /\ AboutIdle /\ ValidateIdle /\ ThrottleIdle /\ PanelIdle /\ DevIdle /\ ConvertIdle /\ FeaturesIdle

SpecPdf == InitPdf /\ [][PdfNext]_vars

InitMeta == MetaInit /\ AuthorsIdle /\ NavIdle /\ GroupIdle /\ PdfIdle /\ AnchorIdle /\ AboutIdle /\ ValidateIdle /\ ThrottleIdle /\ PanelIdle /\ DevIdle /\ ConvertIdle /\ FeaturesIdle

SpecMeta == InitMeta /\ [][CorpusNext]_vars

InitAnchor == AnchorInit /\ CorpusIdle /\ AuthorsIdle /\ NavIdle /\ GroupIdle /\ PdfIdle /\ AboutIdle /\ ValidateIdle /\ ThrottleIdle /\ PanelIdle /\ DevIdle /\ ConvertIdle /\ FeaturesIdle

SpecAnchor == InitAnchor /\ [][AnchorNext]_vars

InitAbout == AboutInit /\ NoCorpus /\ OutputsEmpty /\ AuthorsIdle /\ NavIdle /\ GroupIdle /\ PdfIdle /\ AnchorIdle /\ ValidateIdle /\ ThrottleIdle /\ PanelIdle /\ DevIdle /\ ConvertIdle /\ FeaturesIdle

SpecAbout == InitAbout /\ [][AboutNext]_vars

InitValidate == ValidateInit /\ CorpusIdle /\ AuthorsIdle /\ NavIdle /\ GroupIdle /\ PdfIdle /\ AnchorIdle /\ AboutIdle /\ ThrottleIdle /\ PanelIdle /\ DevIdle /\ ConvertIdle /\ FeaturesIdle

SpecValidate == InitValidate /\ [][ValidateNext]_vars

InitThrottle == ThrottleInit /\ CorpusIdle /\ AuthorsIdle /\ NavIdle /\ GroupIdle /\ PdfIdle /\ AnchorIdle /\ AboutIdle /\ ValidateIdle /\ PanelIdle /\ DevIdle /\ ConvertIdle /\ FeaturesIdle

SpecThrottle == InitThrottle /\ [][ThrottleNext]_vars

InitPanel == PanelInit /\ CorpusIdle /\ AuthorsIdle /\ NavIdle /\ GroupIdle /\ PdfIdle /\ AnchorIdle /\ AboutIdle /\ ValidateIdle /\ ThrottleIdle /\ DevIdle /\ ConvertIdle /\ FeaturesIdle

SpecPanel == InitPanel /\ [][PanelNext]_vars

SpecReinit == InitPanel /\ [][ReinitNext]_vars

InitDev == DevInit /\ CorpusIdle /\ AuthorsIdle /\ NavIdle /\ GroupIdle /\ PdfIdle /\ AnchorIdle /\ AboutIdle /\ ValidateIdle /\ ThrottleIdle /\ PanelIdle /\ ConvertIdle /\ FeaturesIdle

SpecDev == InitDev /\ [][DevNext]_vars

InitConvert == ConvertInit /\ DevIdle /\ CorpusIdle /\ AuthorsIdle /\ NavIdle /\ GroupIdle /\ PdfIdle /\ AnchorIdle /\ AboutIdle /\ ValidateIdle /\ ThrottleIdle /\ PanelIdle /\ FeaturesIdle

SpecConvert == InitConvert /\ [][ConvertNext]_vars

InitFeatures == FeaturesInit /\ ConvertIdle /\ DevIdle /\ CorpusIdle /\ AuthorsIdle /\ NavIdle /\ GroupIdle /\ PdfIdle /\ AnchorIdle /\ AboutIdle /\ ValidateIdle /\ ThrottleIdle /\ PanelIdle

SpecFeatures == InitFeatures /\ [][FeaturesNext]_vars

====
